---------------------------- MODULE Spec2Model ----------------------------
(***************************************************************************)
(* DICOMassist: the selection-and-repair pipeline.                         *)
(*                                                                         *)
(*   - PlanRepairer      fixSelection / estimateSliceCount /               *)
(*                       fixSelectionPlan        (src/src/llm/useLLMChat.ts)*)
(*   - SliceSampler      selectSlicesForSelection / selectFromSeries /     *)
(*                       applyStrategy  (src/src/filtering/SliceSelector.ts)*)
(*   - plan parsing      parseSelectionPlan (src/src/llm/LLMServiceFactory.ts)*)
(*   - PipelineOrchestrator  the useLLMChat hook: startAnalysis,           *)
(*                       confirmPlan, cancelPlan, sendFollowUp, clearChat  *)
(*                                                                         *)
(* Three specifications share the variables:                               *)
(*   SpecRepair   applies fixSelectionPlan (twice) to a bounded input plan *)
(*   SpecSampler  applies the sampler to a bounded series/selection        *)
(*   Spec         the hook as a state machine with its runs in flight      *)
(***************************************************************************)
EXTENDS Integers, Sequences, FiniteSets, TLC

\* ------------------------------------------------------------------------
\* Bounds of the model
\* ------------------------------------------------------------------------
\* largest instance number of the big series of the study
MaxInst == 24
\* largest number of selections of an input plan
MaxSel == 3
\* longest slice list handed to the sampler
MaxLen == 23

\* ------------------------------------------------------------------------
\* Program constants
\* ------------------------------------------------------------------------
MAX_TOTAL == 20
MAX_SLICES == 20

\* an optional value (samplingParam?: number, T | null): {} is absent, {v} is v
None == {}
Some(v) == {v}
Get(o) == CHOOSE v \in o : TRUE

Min2(a, b) == IF a <= b THEN a ELSE b
Max2(a, b) == IF a >= b THEN a ELSE b
\* Math.ceil(a / b) for integers a and b > 0
CeilDiv(a, b) == -((-a) \div b)
\* Math.round(a / b) for integers a >= 0 and b > 0 (halves round up)
RoundDiv(a, b) == (2 * a + b) \div (2 * b)

RECURSIVE SumSeq(_)
SumSeq(s) == IF s = <<>> THEN 0 ELSE Head(s) + SumSeq(Tail(s))

\* ------------------------------------------------------------------------
\* The study (StudyMetadata): a read-only snapshot
\* ------------------------------------------------------------------------
\* a slice: its image handle and its instance number
Slice(id, inst) == [imageId |-> id, instanceNumber |-> inst]

\* series "1": MaxInst slices with instance numbers 1..MaxInst
\* series "2": 4 slices stored in spatial order, which is the reverse of the
\*             instance order, instance numbers 3..6
SeriesBig == [seriesNumber |-> "1",
              instanceNumberRange |-> <<1, MaxInst>>,
              slices |-> [i \in 1..MaxInst |-> Slice(100 + i, i)]]
SeriesSmall == [seriesNumber |-> "2",
                instanceNumberRange |-> <<3, 6>>,
                slices |-> [i \in 1..4 |-> Slice(200 + i, 7 - i)]]
\* series "3": 3 slices of files without an InstanceNumber, which
\*             extractFileMetadata reads as 0
SeriesUnnumbered == [seriesNumber |-> "3",
                     instanceNumberRange |-> <<0, 0>>,
                     slices |-> [i \in 1..3 |-> Slice(300 + i, 0)]]
Study == <<SeriesBig, SeriesSmall, SeriesUnnumbered>>

\* metadata.series.find((s) => String(s.seriesNumber) === seriesNumber)
FindSeries(metadata, seriesNumber) ==
  LET idx == {i \in 1..Len(metadata) : metadata[i].seriesNumber = seriesNumber}
  IN IF idx = {} THEN None
     ELSE Some(metadata[CHOOSE i \in idx : \A j \in idx : i <= j])

\* ------------------------------------------------------------------------
\* PlanRepairer
\* ------------------------------------------------------------------------
RangeSize(sel) == sel.sliceRange[2] - sel.sliceRange[1] + 1

\* if (start > end) [start, end] = [end, start];
\* start = Math.max(minInst, start); end = Math.min(maxInst, end)
ClampRange(range, bounds) ==
  <<Max2(bounds[1], IF range[1] > range[2] THEN range[2] ELSE range[1]),
    Min2(bounds[2], IF range[1] > range[2] THEN range[1] ELSE range[2])>>

\* "all" over more than the budget becomes uniform(budget): <<strategy, param>>
ForceUniform(strategy, param, rangeSize, maxBudget) ==
  IF strategy = "all" /\ rangeSize > maxBudget
    THEN <<"uniform", Some(maxBudget)>>
    ELSE <<strategy, param>>

\* uniform with a missing parameter, or one below 1
DefaultParam(sp, rangeSize, maxBudget) ==
  IF sp[1] = "uniform" /\ (sp[2] = None \/ (sp[2] # None /\ Get(sp[2]) < 1))
    THEN <<sp[1], Some(Min2(maxBudget, rangeSize))>>
    ELSE sp

\* uniform with a parameter above the range size
ClampToRange(sp, rangeSize) ==
  IF sp[1] = "uniform" /\ sp[2] # None /\ Get(sp[2]) > rangeSize
    THEN <<sp[1], Some(rangeSize)>>
    ELSE sp

\* uniform with a parameter above the budget
ClampToBudget(sp, maxBudget) ==
  IF sp[1] = "uniform" /\ sp[2] # None /\ Get(sp[2]) > maxBudget
    THEN <<sp[1], Some(maxBudget)>>
    ELSE sp

\* the three repairs of the sampling of a selection, in the code's order
FixSampling(sel, rangeSize, maxBudget) ==
  ClampToBudget(
    ClampToRange(
      DefaultParam(
        ForceUniform(sel.samplingStrategy, sel.samplingParam, rangeSize, maxBudget),
        rangeSize, maxBudget),
      rangeSize),
    maxBudget)

\* return { ...sel, sliceRange: [start, end], samplingStrategy, samplingParam }
Repaired(sel, range, sp) ==
  [sel EXCEPT !.sliceRange = range,
              !.samplingStrategy = sp[1],
              !.samplingParam = sp[2]]

FixInSeries(sel, range, maxBudget) ==
  Repaired(sel, range, FixSampling(sel, range[2] - range[1] + 1, maxBudget))

\* mutant: a selection of a missing series is repaired against the first series
FixFound_FirstSeries(sel, found, maxBudget) ==
  FixInSeries(sel, ClampRange(sel.sliceRange,
                              IF found = None THEN Study[1].instanceNumberRange
                              ELSE Get(found).instanceNumberRange),
              maxBudget)

FixFound(sel, found, maxBudget) ==
  IF found = None THEN sel
  ELSE FixInSeries(sel, ClampRange(sel.sliceRange, Get(found).instanceNumberRange),
                   maxBudget)

fixSelection(sel, metadata, maxBudget) ==
  FixFound(sel, FindSeries(metadata, sel.seriesNumber), maxBudget)

estimateSliceCount(sel) ==
  LET rangeSize == RangeSize(sel) IN
  IF sel.samplingStrategy = "uniform" /\ sel.samplingParam # None
    THEN Min2(Get(sel.samplingParam), rangeSize)
  ELSE IF sel.samplingStrategy = "every_nth" /\ sel.samplingParam # None
          /\ Get(sel.samplingParam) > 0
    THEN CeilDiv(rangeSize, Get(sel.samplingParam))
  ELSE rangeSize

\* fixedSelections.reduce((sum, s) => sum + estimateSliceCount(s), 0)
TotalEstimate(sels) == SumSeq([i \in 1..Len(sels) |-> estimateSliceCount(sels[i])])

\* the loop reducing every supplementary selection it visits to two slices
RECURSIVE ReduceSupplementary_ToMinimum(_, _)
ReduceSupplementary_ToMinimum(sels, i) ==
  IF i < 1 \/ TotalEstimate(sels) <= MAX_TOTAL THEN sels
  ELSE IF sels[i].role # "supplementary" THEN ReduceSupplementary_ToMinimum(sels, i - 1)
  ELSE ReduceSupplementary_ToMinimum(
         [sels EXCEPT ![i] = [@ EXCEPT !.samplingStrategy = "uniform",
                                       !.samplingParam = Some(2)]], i - 1)

\* the loop of fixSelectionPlan over i = length-1 .. 0 (here i = Len .. 1):
\* supplementary selections, last first, become uniform(max(2, current - excess))
RECURSIVE ReduceSupplementary(_, _)
ReduceSupplementary(sels, i) ==
  IF i < 1 \/ TotalEstimate(sels) <= MAX_TOTAL THEN sels
  ELSE IF sels[i].role # "supplementary" THEN ReduceSupplementary(sels, i - 1)
  ELSE
    LET current == estimateSliceCount(sels[i])
        excess == TotalEstimate(sels) - MAX_TOTAL
        newCount == Max2(2, current - excess)
        reduced == [sels EXCEPT ![i] = [@ EXCEPT !.samplingStrategy = "uniform",
                                                 !.samplingParam = Some(newCount)]]
    IN ReduceSupplementary(reduced, i - 1)

\* fixedSelections.filter((s) => s.role === 'primary')
PrimaryOnly(sels) == SelectSeq(sels, LAMBDA s : s.role = "primary")

\* "If still over, remove supplementary selections entirely"
DropSupplementary(sels) ==
  IF TotalEstimate(sels) > MAX_TOTAL /\ PrimaryOnly(sels) # <<>>
    THEN PrimaryOnly(sels) ELSE sels

\* "If primary alone exceeds, cap it"
CapPrimary(sels) ==
  IF TotalEstimate(sels) > MAX_TOTAL /\ Len(sels) > 0
    THEN [sels EXCEPT ![1] = [@ EXCEPT !.samplingStrategy = "uniform",
                                       !.samplingParam = Some(MAX_TOTAL)]]
    ELSE sels

\* a plan: its selections, totalImages and the legacy mirrors of selections[0]
MakePlan(sels, total) ==
  [selections |-> sels,
   totalImages |-> total,
   targetSeries |-> sels[1].seriesNumber,
   sliceRange |-> sels[1].sliceRange,
   samplingStrategy |-> sels[1].samplingStrategy,
   samplingParam |-> sels[1].samplingParam]

\* a SeriesSelection; sp is <<samplingStrategy, samplingParam>>
Selection(sn, role, range, sp) ==
  [seriesNumber |-> sn, role |-> role, sliceRange |-> range,
   samplingStrategy |-> sp[1], samplingParam |-> sp[2]]

\* the raw plan of the provider; its totalImages is whatever the provider said
RawPlan(sels) == MakePlan(sels, 0)

\* the three steps that enforce the total, taken when the total is over it
EnforceTotal(fixed) ==
  IF TotalEstimate(fixed) > MAX_TOTAL
    THEN CapPrimary(DropSupplementary(ReduceSupplementary(fixed, Len(fixed))))
    ELSE fixed

\* the returned plan: totalImages and the legacy fields are derived again
Rebuilt(fixedSelections) == MakePlan(fixedSelections, TotalEstimate(fixedSelections))

fixSelectionPlan(plan, metadata) ==
  Rebuilt(EnforceTotal([i \in 1..Len(plan.selections) |->
                          fixSelection(plan.selections[i], metadata, MAX_TOTAL)]))

\* ------------------------------------------------------------------------
\* SliceSampler
\* ------------------------------------------------------------------------
\* slices[idx] for an idx that is NaN: the array read yields undefined
Undefined == [undefined |-> TRUE]

\* the outcome of a call: a returned value, or a thrown TypeError
Returned(v) == [ok |-> TRUE, value |-> v]
Threw == [ok |-> FALSE, value |-> <<>>]

\* slicesToSample.sort((a, b) => a.instanceNumber - b.instanceNumber): stable
RECURSIVE InsertByInstance(_, _)
InsertByInstance(sorted, x) ==
  IF sorted = <<>> THEN <<x>>
  ELSE IF sorted[Len(sorted)].instanceNumber <= x.instanceNumber
    THEN Append(sorted, x)
  ELSE Append(InsertByInstance(SubSeq(sorted, 1, Len(sorted) - 1), x),
              sorted[Len(sorted)])

RECURSIVE SortByInstance(_)
SortByInstance(slices) ==
  IF slices = <<>> THEN <<>>
  ELSE InsertByInstance(SortByInstance(SubSeq(slices, 1, Len(slices) - 1)),
                        slices[Len(slices)])

\* mutant: positions counted from 1 instead of 0
EveryNth_FromOne(slices, n) ==
  IF n = 0 THEN <<>>
  ELSE LET k == IF n < 0 THEN -n ELSE n
           kept == {i \in 1..Len(slices) : i % k = 0}
       IN [j \in 1..Cardinality(kept) |-> slices[j * k]]

\* case 'every_nth': slices.filter((_, i) => i % n === 0), i counted from 0.
\* i % 0 is NaN (nothing is kept); for n < 0 the remainder has the sign of i.
EveryNth(slices, n) ==
  IF n = 0 THEN <<>>
  ELSE LET k == IF n < 0 THEN -n ELSE n
           kept == {i \in 1..Len(slices) : (i - 1) % k = 0}
       IN [j \in 1..Cardinality(kept) |-> slices[(j - 1) * k + 1]]

\* the resampling formula: count picks at Math.round(i * (L - 1) / (count - 1));
\* for count = 1 the index is 0 / 0 = NaN and the pick is undefined
PickEvenly(slices, count) ==
  IF count < 1 THEN <<>>
  ELSE IF count = 1 THEN <<Undefined>>
  ELSE [i \in 1..count |->
          slices[RoundDiv((i - 1) * (Len(slices) - 1), count - 1) + 1]]

\* case 'uniform'
Uniform(slices, param) ==
  LET count == Min2(IF param = None THEN 10 ELSE Get(param), Len(slices)) IN
  IF count >= Len(slices) THEN slices ELSE PickEvenly(slices, count)

\* the switch on params.samplingStrategy
StrategyResult(slices, params) ==
  CASE params.samplingStrategy = "all" -> slices
    [] params.samplingStrategy = "every_nth" ->
         EveryNth(slices, IF params.samplingParam = None THEN 2
                          ELSE Get(params.samplingParam))
    [] params.samplingStrategy = "uniform" -> Uniform(slices, params.samplingParam)
    [] OTHER -> slices

\* mutant: the cap compares against maxSlices + 1
HardCap_OffByOne(selected, maxSlices) ==
  IF Len(selected) > maxSlices + 1 THEN PickEvenly(selected, maxSlices) ELSE selected

\* "Hard cap - re-sample uniformly if over"
HardCap(selected, maxSlices) ==
  IF Len(selected) > maxSlices THEN PickEvenly(selected, maxSlices) ELSE selected

\* selected.map((s) => ({imageId: s.imageId, ...})) throws on an undefined pick
MapSelected(selected) ==
  IF \E i \in 1..Len(selected) : selected[i] = Undefined
    THEN Threw ELSE Returned(selected)

applyStrategy(slices, params) ==
  MapSelected(HardCap(StrategyResult(slices, params), MAX_SLICES))

\* the slices handed to the strategy: those in the inclusive range, or the whole
\* series if none is, sorted by instance number
InRange(slices, rangeStart, rangeEnd) ==
  SelectSeq(slices, LAMBDA sl : /\ sl.instanceNumber >= rangeStart
                                /\ sl.instanceNumber <= rangeEnd)

\* mutant: no fallback to the whole series
OrWholeSeries_NoFallback(inRange, slices) == inRange

\* inRange.length === 0 ? [...series.slices] : inRange
OrWholeSeries(inRange, slices) == IF Len(inRange) = 0 THEN slices ELSE inRange

SlicesToSample(series, params) ==
  SortByInstance(OrWholeSeries(
    InRange(series.slices, params.sliceRange[1], params.sliceRange[2]),
    series.slices))

selectFromSeries(series, params) ==
  applyStrategy(SlicesToSample(series, params), params)

SelectFound(found, selection) ==
  IF found = None THEN Returned(<<>>)
  ELSE selectFromSeries(Get(found), selection)

selectSlicesForSelection(metadata, selection) ==
  SelectFound(FindSeries(metadata, selection.seriesNumber), selection)

\* ------------------------------------------------------------------------
\* Plan parsing (the provider's text response, coerced to a plan)
\* ------------------------------------------------------------------------
\* Number("...") of a non-numeric value
NaN == "NaN"

\* a provider response as parseSelectionPlan sees it: whether it is valid JSON,
\* and whether targetSeries and sliceRange are there ("numeric", "nonNumeric")
\* or not ("missing")
RawResponse(json, target, range) ==
  [validJson |-> json, targetSeries |-> target, sliceRange |-> range]

\* parseSelectionPlan: throws on invalid JSON and on a missing targetSeries or
\* sliceRange; otherwise returns the scalar fields, each range end through
\* Number(), and no `selections`
parseSelectionPlan(raw) ==
  IF ~raw.validJson THEN Threw
  ELSE IF raw.targetSeries = "missing" \/ raw.sliceRange = "missing" THEN Threw
  ELSE Returned([targetSeries |-> "2",
                 sliceRange |-> IF raw.sliceRange = "numeric" THEN <<3, 6>>
                                ELSE <<NaN, NaN>>,
                 samplingStrategy |-> "uniform",
                 samplingParam |-> None])

\* plan.selections.map(...) at the head of fixSelectionPlan throws a TypeError
\* when the plan has no `selections`
TryFixSelectionPlan(rawPlan, metadata) ==
  IF "selections" \notin DOMAIN rawPlan THEN Threw
  ELSE Returned(fixSelectionPlan(rawPlan, metadata))

\* ------------------------------------------------------------------------
\* PipelineOrchestrator: values of the hook's state
\* ------------------------------------------------------------------------
StepIds == {"plan", "select", "export", "analyze"}

\* initialSteps and the pipeline set by startAnalysis
InitialPipeline ==
  [steps |-> [id \in StepIds |-> "pending"],
   plan |-> None,
   sliceCount |-> 0,
   totalSlices |-> 0,
   exportedSizes |-> 0,
   sliceMappings |-> <<>>]

\* setPipeline((p) => p && ({...p, steps: updateStep(p.steps, id, {status})}))
updateStep(pipe, id, st) ==
  IF pipe = None THEN None
  ELSE Some([Get(pipe) EXCEPT !.steps[id] = st])

\* setPipeline((p) => p && ({...p, plan, steps: updateStep(p.steps, 'plan', done)}))
SetPipelinePlan(pipe, plan) ==
  IF pipe = None THEN None
  ELSE Some([Get(pipe) EXCEPT !.plan = Some(plan), !.steps["plan"] = "done"])

ChatMessage(role, run) == [role |-> role, run |-> run]

\* ------------------------------------------------------------------------
\* State
\* ------------------------------------------------------------------------
VARIABLES
  rPhase,     \* SpecRepair: "input", "repaired", "again" ("off" in other specs)
  rPlan,      \* SpecRepair: the raw plan handed to fixSelectionPlan
  rOut,       \* SpecRepair: fixSelectionPlan(rPlan), once computed
  rOut2,      \* SpecRepair: fixSelectionPlan(rOut), once computed
  sPhase,     \* SpecSampler: "input", "sampled" ("off" in other specs)
  sSeries,    \* SpecSampler: the series sampled from
  sSel,       \* SpecSampler: the selection (range, strategy, parameter)
  sIn,        \* SpecSampler: the slice list handed to the strategy
  sResult,    \* SpecSampler: what selectSlicesForSelection returned or threw
  status,     \* Spec: ChatStatus
  error,      \* Spec: the error message, or None for null
  messages,   \* Spec: the message history
  currentPlan,\* Spec: the plan shown for confirmation, or None for null
  pipeline,   \* Spec: the PipelineState, or None for null
  abortRef,   \* Spec: the cooperative cancellation flag
  hintRef,    \* Spec: the run whose hint is stored for the analysis call
  runs,       \* Spec: the invocations of startAnalysis, confirmPlan and
              \*       sendFollowUp: where each is suspended, and its locals
  nextRun,    \* Spec: the number of the next invocation
  sinceStart, \* Spec: startAnalysis was invoked and confirmPlan not yet since
  lastPlan,   \* Spec: what the latest startAnalysis to resume got: the provider
              \*       response that was parsed, the plan fixSelectionPlan returned
  confirmEvent \* Spec: what the latest step of a confirmPlan run came to:
              \*       "export" or "analyze" (the call it issued), "empty" (no
              \*       image), "threw" (the sampler threw), "rejected" (its
              \*       await rejected), "aborted", "answered"; "none" at first

VARIABLES
  vPhase,     \* SpecResolver: "input", "resolved" ("off" in other specs)
  vMappings,  \* SpecResolver: the sliceMappings of the assistant message
  vRef,       \* SpecResolver: the reference clicked (from, to, isLegacy)
  vNav,       \* SpecResolver: the mapping handed to onNavigate, None if none
  mPhase,     \* SpecMetadata: "input", "built" ("off" in other specs)
  mRecords,   \* SpecMetadata: the records handed to buildStudyMetadata
  mStudy,     \* SpecMetadata: the StudyMetadata returned
  oPhase,     \* SpecPlane: "input", "detected" ("off" in other specs)
  oInput,     \* SpecPlane: the argument of detectPlaneFromOrientation
  oPlane      \* SpecPlane: the plane returned

resolverVars == <<vPhase, vMappings, vRef, vNav>>
metadataVars == <<mPhase, mRecords, mStudy>>
planeVars == <<oPhase, oInput, oPlane>>
unitVars == <<resolverVars, metadataVars, planeVars>>
repairVars == <<rPhase, rPlan, rOut, rOut2>>
samplerVars == <<sPhase, sSeries, sSel, sIn, sResult>>
hookVars == <<status, error, messages, currentPlan, pipeline>>
chatVars == <<hookVars, abortRef, hintRef, runs, nextRun, sinceStart, lastPlan, confirmEvent>>
otherVars == <<repairVars, samplerVars, unitVars>>
vars == <<repairVars, samplerVars, unitVars, chatVars>>

ResolverOff == vPhase = "off" /\ vMappings = <<>> /\ vRef = None /\ vNav = None
MetadataOff == mPhase = "off" /\ mRecords = <<>> /\ mStudy = None
PlaneOff == oPhase = "off" /\ oInput = None /\ oPlane = None
UnitsOff == ResolverOff /\ MetadataOff /\ PlaneOff
RepairOff == rPhase = "off" /\ rPlan = None /\ rOut = None /\ rOut2 = None
SamplerOff ==
  sPhase = "off" /\ sSeries = None /\ sSel = None /\ sIn = <<>> /\ sResult = None

\* ------------------------------------------------------------------------
\* PipelineOrchestrator: the useLLMChat hook
\* ------------------------------------------------------------------------
\* the number of invocations of startAnalysis, confirmPlan and sendFollowUp
MaxRuns == 3
Runs == 1..MaxRuns

\* an invocation not made yet, or one that returned
NoRun ==
  [kind |-> "none", pc |-> "unused",
   hint |-> 0,             \* confirmPlan: hint, as the run that stored it
   plan |-> None,          \* confirmPlan: adjustedPlan
   selIdx |-> 0,           \* confirmPlan: the selection being exported
   selected |-> <<>>,      \* confirmPlan: selectedSlices of that selection
   mappings |-> <<>>,      \* confirmPlan: allMappings
   blobs |-> <<>>,         \* confirmPlan: allBlobs, each the handle of its slice
   selectedCount |-> 0,    \* confirmPlan: totalSelectedCount
   grandTotal |-> 0,       \* confirmPlan: grandTotalSlices
   cancelledBy |-> "none", \* cancel or clear that came while in flight
   cancelledAt |-> "none"] \* where the run was suspended then

InFlight(r) == runs[r].pc \in {"awaitPlan", "awaitExport", "awaitAnalysis", "awaitFollowUp"}

\* the state after useLLMChat's construction
InitChat ==
  /\ status = "idle"
  /\ error = None
  /\ messages = <<>>
  /\ currentPlan = None
  /\ pipeline = None
  /\ abortRef = FALSE
  /\ hintRef = 0
  /\ runs = [r \in Runs |-> NoRun]
  /\ nextRun = 1
  /\ sinceStart = FALSE
  /\ lastPlan = [response |-> None, result |-> None]
  /\ confirmEvent = "none"

\* a run returns: its locals are dropped
Finished(run) == [NoRun EXCEPT !.kind = run.kind, !.pc = "done"]

\* plans a provider conforming to LLMService.getSelectionPlan resolves with
ProviderPlans ==
  {RawPlan(<<Selection("2", "primary", <<3, 6>>, <<"all", None>>)>>),
   RawPlan(<<Selection("2", "primary", <<1, 9>>, <<"uniform", Some(2)>>),
             Selection("2", "supplementary", <<4, 5>>, <<"every_nth", Some(1)>>)>>),
   RawPlan(<<Selection("9", "primary", <<1, 9>>, <<"all", None>>)>>),
   RawPlan(<<Selection("2", "primary", <<3, 6>>, <<"uniform", Some(1)>>)>>),
   RawPlan(<<Selection("3", "primary", <<0, 0>>, <<"all", None>>)>>)}

\* provider text responses: well-formed, not JSON, a required field missing,
\* a range that is not numeric
RawResponses ==
  {RawResponse(TRUE, "present", "numeric"),
   RawResponse(FALSE, "missing", "missing"),
   RawResponse(TRUE, "missing", "numeric"),
   RawResponse(TRUE, "present", "missing"),
   RawResponse(TRUE, "present", "nonNumeric")}

\* startAnalysis(hint), up to its await of service.getSelectionPlan.
\* Entry is serialized by the caller: a run starts from idle or error.
startAnalysis ==
  /\ nextRun <= MaxRuns
  /\ status \in {"idle", "error"}
  /\ abortRef' = FALSE
  /\ error' = None
  /\ pipeline' = updateStep(Some(InitialPipeline), "plan", "active")
  /\ messages' = Append(messages, ChatMessage("user", nextRun))
  /\ status' = "planning"
  /\ runs' = [runs EXCEPT ![nextRun] = [NoRun EXCEPT !.kind = "start", !.pc = "awaitPlan"]]
  /\ nextRun' = nextRun + 1
  /\ sinceStart' = TRUE
  /\ UNCHANGED <<currentPlan, hintRef, lastPlan, confirmEvent, otherVars>>

\* startAnalysis resumes after its await; `fixed` is what fixSelectionPlan made
\* of the plan, or Threw if the call rejected or the repair threw
StartContinues(r, settled, fixed, raw) ==
  /\ runs[r].kind = "start" /\ runs[r].pc = "awaitPlan"
  /\ runs' = [runs EXCEPT ![r] = Finished(runs[r])]
  /\ lastPlan' = [response |-> raw,
                  result |-> IF fixed.ok THEN Some(fixed.value) ELSE None]
  /\ IF abortRef
       THEN UNCHANGED <<hookVars, hintRef>>
     ELSE IF fixed.ok
       THEN /\ currentPlan' = Some(fixed.value)
            /\ pipeline' = SetPipelinePlan(pipeline, fixed.value)
            /\ hintRef' = r
            /\ status' = "awaiting-confirmation"
            /\ UNCHANGED <<error, messages>>
     ELSE /\ error' = Some(IF settled.ok THEN "TypeError" ELSE "provider error")
          /\ status' = "error"
          /\ UNCHANGED <<messages, currentPlan, pipeline, hintRef>>
  /\ UNCHANGED <<abortRef, nextRun, sinceStart, confirmEvent, otherVars>>

\* getSelectionPlan settled with `settled` (a plan or a rejection); `raw` is the
\* provider response behind it, if one was parsed
StartResumes(r, settled, raw) ==
  StartContinues(r, settled,
                 IF settled.ok THEN TryFixSelectionPlan(settled.value, Study) ELSE Threw,
                 raw)

\* the provider resolves with a SelectionPlan
PlanResolves(r) == \E plan \in ProviderPlans : StartResumes(r, Returned(plan), None)

\* the provider's text goes through parseSelectionPlan
PlanResponse(r) ==
  \E raw \in RawResponses : StartResumes(r, parseSelectionPlan(raw), Some(raw))

\* the provider call fails (network, authentication, time-out)
PlanRejects(r) == StartResumes(r, Threw, None)

\* cancel or clear reaches every run in flight (recorded for the properties only)
MarkCancelled(by) ==
  [r \in Runs |->
     IF InFlight(r) /\ runs[r].cancelledBy = "none"
       THEN [runs[r] EXCEPT !.cancelledBy = by, !.cancelledAt = runs[r].pc]
       ELSE runs[r]]

\* mutant: cancel leaves the status as it is
cancelPlan_StatusKept ==
  /\ status \in {"planning", "awaiting-confirmation", "exporting", "analyzing"}
  /\ abortRef' = TRUE
  /\ currentPlan' = None
  /\ pipeline' = None
  /\ messages' = IF messages # <<>> /\ messages[Len(messages)].role = "user"
                   THEN SubSeq(messages, 1, Len(messages) - 1)
                   ELSE messages
  /\ runs' = MarkCancelled("cancel")
  /\ UNCHANGED <<status, error, hintRef, nextRun, sinceStart, lastPlan, confirmEvent, otherVars>>

\* cancelPlan(), offered while a pipeline run is in flight
cancelPlan ==
  /\ status \in {"planning", "awaiting-confirmation", "exporting", "analyzing"}
  /\ abortRef' = TRUE
  /\ status' = "idle"
  /\ currentPlan' = None
  /\ pipeline' = None
  /\ messages' = IF messages # <<>> /\ messages[Len(messages)].role = "user"
                   THEN SubSeq(messages, 1, Len(messages) - 1)
                   ELSE messages
  /\ runs' = MarkCancelled("cancel")
  /\ UNCHANGED <<error, hintRef, nextRun, sinceStart, lastPlan, confirmEvent, otherVars>>

\* clearChat()
clearChat ==
  /\ abortRef' = TRUE
  /\ messages' = <<>>
  /\ status' = "idle"
  /\ error' = None
  /\ currentPlan' = None
  /\ pipeline' = None
  /\ runs' = MarkCancelled("clear")
  /\ UNCHANGED <<hintRef, nextRun, sinceStart, lastPlan, confirmEvent, otherVars>>

\* the plans confirmPlan is invoked with: the plan shown, or one the user edited
\* in the preview card
EditedPlan == MakePlan(<<Selection("2", "primary", <<5, 6>>, <<"all", None>>)>>, 2)

\* the preview card: the greatest N of a row, and a row's state
RowMaxSlices == 20
Row(sn, role, rangeStart, rangeEnd, numSlices) ==
  [seriesNumber |-> sn, role |-> role, rangeStart |-> rangeStart,
   rangeEnd |-> rangeEnd, numSlices |-> numSlices]
\* clampedSlices = Math.min(Math.max(row.numSlices, 1), rangeSize, 20)
ClampedSlices(row) ==
  Min2(Min2(Max2(row.numSlices, 1), row.rangeEnd - row.rangeStart + 1), RowMaxSlices)
rowStateToSelection(row) ==
  Selection(row.seriesNumber, row.role, <<row.rangeStart, row.rangeEnd>>,
            IF ClampedSlices(row) >= row.rangeEnd - row.rangeStart + 1
              THEN <<"all", None>>
              ELSE <<"uniform", Some(ClampedSlices(row))>>)
\* the card's own estimate of a selection
estimateSlices(sel) == Min2(estimateSliceCount(sel), RowMaxSlices)
\* handleAccept: the plan handed to confirmPlan, built from the rows
handleAccept(rows) ==
  MakePlan([i \in 1..Len(rows) |-> rowStateToSelection(rows[i])],
           SumSeq([i \in 1..Len(rows) |-> estimateSlices(rowStateToSelection(rows[i]))]))
\* two rows edited to the whole of series 1 with N = 20 and all of series 2
EditedTwoRows ==
  handleAccept(<<Row("1", "primary", 1, MaxInst, RowMaxSlices),
                 Row("2", "supplementary", 3, 6, 4)>>)
\* rows can be edited and removed, not added
AdjustedPlans(plan) ==
  {plan, EditedPlan} \cup (IF Len(plan.selections) >= 2 THEN {EditedTwoRows} ELSE {})

\* the first selection at or after `from` for which the loop of confirmPlan does
\* not `continue`: selectSlicesForSelection throws or returns slices (0 if none)
FirstBusy(plan, from) ==
  LET busy == {j \in from..Len(plan.selections) :
                 selectSlicesForSelection(Study, plan.selections[j]) # Returned(<<>>)}
  IN IF busy = {} THEN 0 ELSE CHOOSE j \in busy : \A k \in busy : j <= k

\* series?.slices.length ?? selectedSlices.length
SlicesOf(found, selectedSlices) ==
  IF found = None THEN Len(selectedSlices) ELSE Len(Get(found).slices)
TotalSlicesInSeries(sel, selectedSlices) ==
  SlicesOf(FindSeries(Study, sel.seriesNumber), selectedSlices)

\* no image was exported: the select step fails and the run throws into the
\* catch block, where abortRef is false
ConfirmEmpty_StepKept(r, run0, pipe0) ==
  /\ pipeline' = pipe0
  /\ error' = Some("No slices matched the selection plan")
  /\ status' = "error"
  /\ runs' = [runs EXCEPT ![r] = Finished(run0)]
  /\ confirmEvent' = "empty"
ConfirmEmpty(r, run0, pipe0) ==
  /\ pipeline' = updateStep(pipe0, "select", "error")
  /\ error' = Some("No slices matched the selection plan")
  /\ status' = "error"
  /\ runs' = [runs EXCEPT ![r] = Finished(run0)]
  /\ confirmEvent' = "empty"

\* select and export are done and the analysis call is issued with allBlobs and
\* the labels of allMappings
ConfirmAnalyzes(r, run0, pipe0, e0) ==
  /\ pipeline' =
       IF pipe0 = None THEN None
       ELSE Some([Get(pipe0) EXCEPT
                    !.sliceCount = run0.selectedCount,
                    !.totalSlices = run0.grandTotal,
                    !.exportedSizes = Len(run0.blobs),
                    !.sliceMappings = run0.mappings,
                    !.steps["select"] = "done",
                    !.steps["export"] = "done",
                    !.steps["analyze"] = "active"])
  /\ error' = e0
  /\ status' = "analyzing"
  /\ runs' = [runs EXCEPT ![r] =
                [run0 EXCEPT !.pc = "awaitAnalysis",
                             !.selIdx = 0, !.selected = <<>>]]
  /\ confirmEvent' = "analyze"

\* the loop of confirmPlan is over
ConfirmLoopEnds(r, run0, pipe0, e0) ==
  IF run0.blobs = <<>>
    THEN ConfirmEmpty(r, run0, pipe0)
    ELSE ConfirmAnalyzes(r, run0, pipe0, e0)

\* selection j gave `res`: the sampler threw (the catch block), or the export
\* call for its slices is issued
ConfirmSelection(r, run0, pipe0, st0, e0, j, sel, res) ==
  IF ~res.ok
    THEN /\ pipeline' = pipe0
         /\ error' = Some("TypeError")
         /\ status' = "error"
         /\ runs' = [runs EXCEPT ![r] = Finished(run0)]
         /\ confirmEvent' = "threw"
    ELSE /\ pipeline' = updateStep(pipe0, "export", "active")
         /\ error' = e0
         /\ status' = st0
         /\ runs' = [runs EXCEPT ![r] =
                       [run0 EXCEPT
                          !.pc = "awaitExport",
                          !.selIdx = j,
                          !.selected = res.value,
                          !.selectedCount = @ + Len(res.value),
                          !.grandTotal = @ + TotalSlicesInSeries(sel, res.value)]]
         /\ confirmEvent' = "export"

ConfirmFrom(r, run0, pipe0, st0, e0, plan, j) ==
  IF j = 0 THEN ConfirmLoopEnds(r, run0, pipe0, e0)
  ELSE ConfirmSelection(r, run0, pipe0, st0, e0, j, plan.selections[j],
                        selectSlicesForSelection(Study, plan.selections[j]))

\* confirmPlan's loop over adjustedPlan.selections from selection `from` on, up
\* to the next await or to the function's end; run0, pipe0, st0 and e0 are the
\* run's locals, the pipeline, the status and the error as the code before the
\* loop left them
ConfirmLoop(r, run0, pipe0, st0, e0, from) ==
  ConfirmFrom(r, run0, pipe0, st0, e0, Get(run0.plan),
              FirstBusy(Get(run0.plan), from))

\* confirmPlan(adjustedPlan), up to its first await (or its end)
confirmPlan ==
  /\ nextRun <= MaxRuns
  /\ status = "awaiting-confirmation"
  /\ currentPlan # None
  /\ \E adjustedPlan \in AdjustedPlans(Get(currentPlan)) :
       /\ currentPlan' = Some(adjustedPlan)
       /\ ConfirmLoop(nextRun,
                      [NoRun EXCEPT !.kind = "confirm", !.hint = hintRef,
                                    !.plan = Some(adjustedPlan)],
                      updateStep(SetPipelinePlan(pipeline, adjustedPlan), "select", "active"),
                      "exporting", None, 1)
  /\ abortRef' = FALSE
  /\ nextRun' = nextRun + 1
  /\ sinceStart' = FALSE
  /\ UNCHANGED <<messages, hintRef, lastPlan, otherVars>>

\* slice lists up to this length are rendered in every combination of failures
MaxPartial == 2
\* the sets of positions whose rendering yields a blob: every subset for a
\* short list; all, none, all but the first for a long one
RenderOutcomes(n) ==
  IF n <= MaxPartial THEN SUBSET (1..n)
  ELSE {1..n, {}, 2..n}

\* the elements of `list` at the positions in `keep`, in order
RECURSIVE KeepAt(_, _, _)
KeepAt(list, keep, i) ==
  IF i > Len(list) THEN <<>>
  ELSE (IF i \in keep THEN <<list[i]>> ELSE <<>>) \o KeepAt(list, keep, i + 1)

\* selectedSlices.find((s) => s.instanceNumber === e.instanceNumber)?.imageId
FindImageId(selectedSlices, instanceNumber) ==
  LET idx == {i \in 1..Len(selectedSlices) :
                selectedSlices[i].instanceNumber = instanceNumber}
  IN selectedSlices[CHOOSE i \in idx : \A k \in idx : i <= k].imageId

\* for (const e of exported) { allBlobs.push(e.blob); allMappings.push({...}) }
WithExported(run, exported) ==
  LET sel == Get(run.plan).selections[run.selIdx] IN
  [run EXCEPT
     !.blobs = @ \o [k \in 1..Len(exported) |-> exported[k].imageId],
     !.mappings = @ \o
        [k \in 1..Len(exported) |->
           [imageIndex |-> Len(run.blobs) + k,
            instanceNumber |-> exported[k].instanceNumber,
            imageId |-> FindImageId(run.selected, exported[k].instanceNumber),
            seriesNumber |-> sel.seriesNumber]]]

\* confirmPlan resumes: exportSlicesToJpeg resolved with the slices at the
\* positions `rendered` (a slice whose rendering yields no blob is left out)
ExportResolves(r) ==
  /\ runs[r].kind = "confirm" /\ runs[r].pc = "awaitExport"
  /\ \E rendered \in RenderOutcomes(Len(runs[r].selected)) :
       IF abortRef
         THEN /\ runs' = [runs EXCEPT ![r] = Finished(runs[r])]
              /\ confirmEvent' = "aborted"
              /\ UNCHANGED <<status, error, pipeline>>
         ELSE ConfirmLoop(r, WithExported(runs[r], KeepAt(runs[r].selected, rendered, 1)),
                          pipeline, status, error, runs[r].selIdx + 1)
  /\ UNCHANGED <<messages, currentPlan, abortRef, hintRef, nextRun, sinceStart, lastPlan, otherVars>>

\* the catch block of confirmPlan, entered from an await that rejected
ConfirmCatches(r, pc, msg) ==
  /\ runs[r].kind = "confirm" /\ runs[r].pc = pc
  /\ runs' = [runs EXCEPT ![r] = Finished(runs[r])]
  /\ IF abortRef
       THEN UNCHANGED <<status, error>>
       ELSE error' = Some(msg) /\ status' = "error"
  /\ confirmEvent' = "rejected"
  /\ UNCHANGED <<messages, currentPlan, pipeline, abortRef, hintRef, nextRun, sinceStart, lastPlan, otherVars>>

\* exportSlicesToJpeg rejects (an image fails to load)
ExportRejects(r) == ConfirmCatches(r, "awaitExport", "export error")

\* confirmPlan resumes: service.analyzeSlices resolved
AnalysisResolves(r) ==
  /\ runs[r].kind = "confirm" /\ runs[r].pc = "awaitAnalysis"
  /\ runs' = [runs EXCEPT ![r] = Finished(runs[r])]
  /\ confirmEvent' = IF abortRef THEN "aborted" ELSE "answered"
  /\ IF abortRef
       THEN UNCHANGED hookVars
       ELSE /\ pipeline' = updateStep(pipeline, "analyze", "done")
            /\ messages' = Append(messages, ChatMessage("assistant", r))
            /\ status' = "idle"
            /\ UNCHANGED <<error, currentPlan>>
  /\ UNCHANGED <<abortRef, hintRef, nextRun, sinceStart, lastPlan, otherVars>>

\* service.analyzeSlices rejects
AnalysisRejects(r) == ConfirmCatches(r, "awaitAnalysis", "provider error")

\* sendFollowUp(text), up to its await of service.sendFollowUp; offered when
\* idle with a conversation to follow up on
sendFollowUp ==
  /\ nextRun <= MaxRuns
  /\ status = "idle"
  /\ messages # <<>>
  /\ error' = None
  /\ messages' = Append(messages, ChatMessage("user", nextRun))
  /\ status' = "following-up"
  /\ runs' = [runs EXCEPT ![nextRun] =
                [NoRun EXCEPT !.kind = "followUp", !.pc = "awaitFollowUp"]]
  /\ nextRun' = nextRun + 1
  /\ UNCHANGED <<currentPlan, pipeline, abortRef, hintRef, sinceStart, lastPlan, confirmEvent, otherVars>>

\* sendFollowUp resumes with the response (abortRef is not consulted)
FollowUpResolves(r) ==
  /\ runs[r].kind = "followUp" /\ runs[r].pc = "awaitFollowUp"
  /\ runs' = [runs EXCEPT ![r] = Finished(runs[r])]
  /\ messages' = Append(messages, ChatMessage("assistant", r))
  /\ status' = "idle"
  /\ UNCHANGED <<error, currentPlan, pipeline, abortRef, hintRef, nextRun, sinceStart, lastPlan, confirmEvent, otherVars>>

\* service.sendFollowUp rejects
FollowUpRejects(r) ==
  /\ runs[r].kind = "followUp" /\ runs[r].pc = "awaitFollowUp"
  /\ runs' = [runs EXCEPT ![r] = Finished(runs[r])]
  /\ error' = Some("provider error")
  /\ status' = "error"
  /\ UNCHANGED <<messages, currentPlan, pipeline, abortRef, hintRef, nextRun, sinceStart, lastPlan, confirmEvent, otherVars>>

Init == InitChat /\ RepairOff /\ SamplerOff /\ UnitsOff

Next ==
  \/ startAnalysis
  \/ confirmPlan
  \/ cancelPlan
  \/ sendFollowUp
  \/ clearChat
  \/ \E r \in Runs : PlanResolves(r)
  \/ \E r \in Runs : PlanResponse(r)
  \/ \E r \in Runs : PlanRejects(r)
  \/ \E r \in Runs : ExportResolves(r)
  \/ \E r \in Runs : ExportRejects(r)
  \/ \E r \in Runs : AnalysisResolves(r)
  \/ \E r \in Runs : AnalysisRejects(r)
  \/ \E r \in Runs : FollowUpResolves(r)
  \/ \E r \in Runs : FollowUpRejects(r)

Spec == Init /\ [][Next]_vars

\* the external call run r is suspended in fails; this outcome is possible
\* exactly while a call of r is pending
CallRejects(r) ==
  PlanRejects(r) \/ ExportRejects(r) \/ AnalysisRejects(r) \/ FollowUpRejects(r)

\* no external call stays pending for ever: a call that returns ends the
\* pending state as well as one that fails, so either outcome meets the
\* condition; the invocations of the hook's operations are under no obligation
SpecFair == Spec /\ \A r \in Runs : WF_vars(CallRejects(r))

\* ------------------------------------------------------------------------
\* SpecRepair: fixSelectionPlan on bounded input plans
\* ------------------------------------------------------------------------
Roles == {"primary", "supplementary"}
\* series "1" is in the study, series "9" is not
PlanSeries == {"1", "9"}
\* range ends: below the bounds, at them, inside, above them
RangeVals == {-3, 0, 1, 5, MaxInst, MaxInst + 3}
ParamVals == {None, Some(-1), Some(0), Some(1), Some(3), Some(MAX_TOTAL), Some(MAX_TOTAL + 5)}
StrategyParams ==
  {<<"all", None>>} \cup ({"uniform", "every_nth"} \X ParamVals)

\* every single selection over the full ranges and parameters
RichSelections ==
  {Selection(sn, role, <<s, e>>, sp) :
     sn \in PlanSeries, role \in Roles, s \in RangeVals, e \in RangeVals,
     sp \in StrategyParams}

\* the selections that plans of several selections are made of: over the whole
\* series, a part of it, one slice, and a series the study does not have
CoarseShapes ==
  {<<"1", <<1, MaxInst>>, <<"uniform", Some(15)>>>>,
   <<"1", <<1, MaxInst>>, <<"uniform", Some(10)>>>>,
   <<"1", <<5, 5>>, <<"all", None>>>>,
   <<"1", <<1, MaxInst>>, <<"all", None>>>>,
   <<"1", <<1, MaxInst>>, <<"every_nth", Some(2)>>>>,
   <<"9", <<1, MaxInst>>, <<"all", None>>>>}
CoarseSelections ==
  {Selection(sh[1], role, sh[2], sh[3]) : role \in Roles, sh \in CoarseShapes}
PlansOfLength(n) == {RawPlan(sels) : sels \in [1..n -> CoarseSelections]}
SinglePlans == {RawPlan(<<sel>>) : sel \in RichSelections}

InitRepair ==
  /\ rPhase = "input"
  /\ \/ rPlan \in SinglePlans
     \/ \E n \in 2..MaxSel : rPlan \in PlansOfLength(n)
  /\ rOut = None
  /\ rOut2 = None
  /\ SamplerOff
  /\ UnitsOff
  /\ InitChat

Repair ==
  /\ rPhase = "input"
  /\ rOut' = Some(fixSelectionPlan(rPlan, Study))
  /\ rPhase' = "repaired"
  /\ UNCHANGED <<rPlan, rOut2, samplerVars, unitVars, chatVars>>

RepairAgain ==
  /\ rPhase = "repaired"
  /\ rOut2' = Some(fixSelectionPlan(Get(rOut), Study))
  /\ rPhase' = "again"
  /\ UNCHANGED <<rPlan, rOut, samplerVars, unitVars, chatVars>>

NextRepair == Repair \/ RepairAgain

SpecRepair == InitRepair /\ [][NextRepair]_vars

\* ------------------------------------------------------------------------
\* Claims about the PlanRepairer
\* ------------------------------------------------------------------------
\* C1: the plan returned by fixSelectionPlan has a total estimated image count
\* of at most 20, whatever the roles of the selections and whether or not the
\* referenced series exist, and its totalImages equals that sum.
C1_BudgetRespected ==
  rPhase # "input" =>
    /\ TotalEstimate(Get(rOut).selections) <= MAX_TOTAL
    /\ Get(rOut).totalImages = TotalEstimate(Get(rOut).selections)

\* C2: every repaired selection whose series is in the study has a sliceRange
\* [start, end] with min <= start <= end <= max for that series' bounds.
C2_RangeWithinBounds ==
  rPhase # "input" =>
    \A i \in 1..Len(Get(rOut).selections) :
      LET sel == Get(rOut).selections[i]
          found == FindSeries(Study, sel.seriesNumber)
      IN found # None =>
           /\ Get(found).instanceNumberRange[1] <= sel.sliceRange[1]
           /\ sel.sliceRange[1] <= sel.sliceRange[2]
           /\ sel.sliceRange[2] <= Get(found).instanceNumberRange[2]

\* C6: repairing the output of a repair returns the same selections and the
\* same totalImages.
C6_RepairIdempotent ==
  rPhase = "again" =>
    /\ Get(rOut2).selections = Get(rOut).selections
    /\ Get(rOut2).totalImages = Get(rOut).totalImages


\* ------------------------------------------------------------------------
\* SpecSampler: selectSlicesForSelection on bounded series and selections
\* ------------------------------------------------------------------------
\* how the instance numbers of a series of m slices run along its stored
\* (spatial) order: contiguous, with gaps, with repeats, or reversed
Numberings == {"contiguous", "gaps", "repeats", "reversed"}
InstanceOf(numbering, i, m) ==
  CASE numbering = "contiguous" -> i
    [] numbering = "gaps" -> 2 * i
    [] numbering = "repeats" -> (i + 1) \div 2
    [] numbering = "reversed" -> m + 1 - i

RECURSIVE MinInstance(_)
MinInstance(slices) ==
  IF Len(slices) = 1 THEN slices[1].instanceNumber
  ELSE Min2(slices[1].instanceNumber, MinInstance(Tail(slices)))
RECURSIVE MaxInstance(_)
MaxInstance(slices) ==
  IF Len(slices) = 1 THEN slices[1].instanceNumber
  ELSE Max2(slices[1].instanceNumber, MaxInstance(Tail(slices)))

SampleSeries(numbering, m) ==
  LET slices == [i \in 1..m |-> Slice(i, InstanceOf(numbering, i, m))] IN
  [seriesNumber |-> "1",
   instanceNumberRange |-> IF m = 0 THEN <<0, 0>>
                           ELSE <<MinInstance(slices), MaxInstance(slices)>>,
   slices |-> slices]

\* ranges: covering every slice, covering a part, matching nothing
SampleRanges == {<<1, 2 * MaxLen + 2>>, <<3, 8>>, <<-5, 0>>}
SampleParams == {None} \cup {Some(n) : n \in -2..(MaxLen + 2)}
SampleStrategyParams ==
  {<<"all", None>>} \cup ({"uniform", "every_nth"} \X SampleParams)

InitSampler ==
  /\ sPhase = "input"
  /\ \E numbering \in Numberings, m \in 0..MaxLen :
       sSeries = SampleSeries(numbering, m)
  /\ \E sn \in PlanSeries, range \in SampleRanges, sp \in SampleStrategyParams :
       sSel = Selection(sn, "primary", range, sp)
  /\ sIn = <<>>
  /\ sResult = None
  /\ RepairOff
  /\ UnitsOff
  /\ InitChat

Sample ==
  /\ sPhase = "input"
  /\ sIn' = IF FindSeries(<<sSeries>>, sSel.seriesNumber) = None THEN <<>>
            ELSE SlicesToSample(sSeries, sSel)
  /\ sResult' = Some(selectSlicesForSelection(<<sSeries>>, sSel))
  /\ sPhase' = "sampled"
  /\ UNCHANGED <<sSeries, sSel, repairVars, unitVars, chatVars>>

NextSampler == Sample

SpecSampler == InitSampler /\ [][NextSampler]_vars

\* ------------------------------------------------------------------------
\* Claims about the SliceSampler
\* ------------------------------------------------------------------------
\* the sampler ran on a series of the study, and returned or threw
Sampled == sPhase = "sampled" /\ sSel.seriesNumber = sSeries.seriesNumber
SampleOut == Get(sResult)
\* the position (from 0) in the strategy's input of a returned slice; the image
\* handles of a series are distinct
PosIn(list, x) == (CHOOSE p \in 1..Len(list) : list[p] = x) - 1
StrictlyIncreasingIn(list, picks) ==
  /\ \A i \in 1..Len(picks) : \E p \in 1..Len(list) : list[p] = picks[i]
  /\ \A i \in 1..(Len(picks) - 1) : PosIn(list, picks[i]) < PosIn(list, picks[i + 1])
ParamOf(sel) == Get(sel.samplingParam)

\* C3: uniform sampling of m >= 1 slices with count n, 1 <= n <= m, n <= 20,
\* returns exactly n slices at the strictly increasing input positions
\* round(i*(m-1)/(n-1)), the first being input[0] and the last input[m-1];
\* with n >= m the whole input is returned.
C3_UniformExact ==
  (/\ Sampled
   /\ sSel.samplingStrategy = "uniform"
   /\ sSel.samplingParam # None
   /\ Len(sIn) >= 1
   /\ ParamOf(sSel) >= 1 /\ ParamOf(sSel) <= Len(sIn) /\ ParamOf(sSel) <= MAX_SLICES)
  => LET n == ParamOf(sSel)
         m == Len(sIn)
         out == SampleOut.value
     IN /\ SampleOut.ok
        /\ Len(out) = n
        /\ out[1] = sIn[1]
        /\ out[n] = sIn[m]
        /\ StrictlyIncreasingIn(sIn, out)
        /\ n >= 2 => \A i \in 1..n :
                       PosIn(sIn, out[i]) = RoundDiv((i - 1) * (m - 1), n - 1)
        /\ n >= m => out = sIn

\* the step an every_nth selection asks for (2 when unspecified)
StepOf(sel) == IF sel.samplingParam = None THEN 2 ELSE ParamOf(sel)
EveryNthCase ==
  /\ Sampled
  /\ sSel.samplingStrategy = "every_nth"
  /\ StepOf(sSel) >= 1
\* exactly ceil(m/k) slices, those at input positions 0, k, 2k, ...
EveryNthExact ==
  LET k == StepOf(sSel)
      m == Len(sIn)
      out == SampleOut.value
  IN /\ SampleOut.ok
     /\ Len(out) = CeilDiv(m, k)
     /\ \A j \in 1..Len(out) : out[j] = sIn[(j - 1) * k + 1]

\* C4 as stated: every_nth with step k >= 1 (2 when unspecified) over m slices
\* returns exactly ceil(m/k) slices, those at positions 0, k, 2k, ...
C4_EveryNthExact == EveryNthCase => EveryNthExact

\* C4 as amended: the same whenever ceil(m/k) is within the cap of 20 slices;
\* above it the sampler returns 20 slices (the hard cap re-samples).
C4_EveryNthWithinCap ==
  EveryNthCase =>
    IF CeilDiv(Len(sIn), StepOf(sSel)) <= MAX_SLICES
      THEN EveryNthExact
      ELSE SampleOut.ok /\ Len(SampleOut.value) = MAX_SLICES

C4_Witness ==
  /\ EveryNthCase
  /\ StepOf(sSel) = 3
  /\ Len(sIn) = 10
  /\ Len(SampleOut.value) = 4

\* C5: selectSlicesForSelection returns at most 20 slices; when the declared
\* strategy alone yields more than 20, the result has exactly 20 slices, in
\* input order without repetition, with the first and the last slice of the
\* strategy's result.
C5_HardCap ==
  (sPhase = "sampled" /\ SampleOut.ok) =>
    LET out == SampleOut.value
        byStrategy == StrategyResult(sIn, sSel)
    IN /\ Len(out) <= MAX_SLICES
       /\ (Sampled /\ Len(byStrategy) > MAX_SLICES) =>
            /\ Len(out) = MAX_SLICES
            /\ StrictlyIncreasingIn(sIn, out)
            /\ out[1] = byStrategy[1]
            /\ out[Len(out)] = byStrategy[Len(byStrategy)]

C5_Witness ==
  /\ Sampled
  /\ SampleOut.ok
  /\ sSel.samplingStrategy = "all"
  /\ Len(sIn) > MAX_SLICES + 1
  /\ Len(SampleOut.value) = MAX_SLICES

\* ------------------------------------------------------------------------
\* Claims about the PipelineOrchestrator
\* ------------------------------------------------------------------------
\* run r resumes after its await
Resumes(r) ==
  InFlight(r) /\ (runs'[r].pc # runs[r].pc \/ runs'[r].selIdx # runs[r].selIdx)
\* run r issues an export or analysis call: it comes to suspend in a new one
IssuesCall(r) ==
  /\ runs'[r].pc \in {"awaitExport", "awaitAnalysis"}
  /\ runs'[r].pc # runs[r].pc \/ runs'[r].selIdx # runs[r].selIdx
StepsAre(pipe, plan, select, export, analyze) ==
  /\ pipe # None
  /\ Get(pipe).steps = [id \in StepIds |->
       CASE id = "plan" -> plan [] id = "select" -> select
         [] id = "export" -> export [] id = "analyze" -> analyze]

\* C7: no export call and no analysis call is issued between start(hint) and a
\* later confirm(plan); and when plan generation and repair succeed and the run
\* was not cancelled, start ends with status awaiting-confirmation, currentPlan
\* the repaired plan, the plan step done and the other three steps pending.
C7_NoCallBeforeConfirm ==
  (sinceStart /\ sinceStart') => \A r \in Runs : ~IssuesCall(r)
C7_StartEndsAwaiting ==
  \A r \in Runs :
    (/\ runs[r].kind = "start" /\ Resumes(r)
     /\ runs[r].cancelledBy = "none"
     /\ lastPlan'.result # None)
    => /\ status' = "awaiting-confirmation"
       /\ currentPlan' = lastPlan'.result
       /\ StepsAre(pipeline', "done", "pending", "pending", "pending")
C7_StartStopsAfterPlanning ==
  [][C7_NoCallBeforeConfirm /\ C7_StartEndsAwaiting]_vars

\* C8: when cancel() comes while confirm is suspended in an export call, status
\* is idle, currentPlan and pipeline are null and the user message of the
\* triggering start is gone; and from then on that run issues no export or
\* analysis call, stores nothing into the pipeline and appends no message.
CancelledInExport(r) ==
  runs[r].cancelledBy = "cancel" /\ runs[r].cancelledAt = "awaitExport"
C8_CancelResets ==
  \A r \in Runs :
    (runs[r].pc = "awaitExport" /\ ~CancelledInExport(r) /\ CancelledInExport(r)')
    => /\ status' = "idle"
       /\ currentPlan' = None
       /\ pipeline' = None
       /\ \A i \in 1..Len(messages') : messages'[i] # ChatMessage("user", runs[r].hint)
C8_RunStops ==
  \A r \in Runs :
    (CancelledInExport(r) /\ Resumes(r))
    => /\ ~IssuesCall(r)
       /\ pipeline' = pipeline
       /\ messages' = messages
C8_CancelDuringExport == [][C8_CancelResets /\ C8_RunStops]_vars

\* C9: a start or confirm run that was in flight when clear() or cancel() came
\* changes none of status, messages, error, currentPlan and pipeline when its
\* pending call completes or fails, whatever was invoked in between.
C9_CancelledRunDiscards ==
  [][\A r \in Runs :
       (/\ runs[r].kind \in {"start", "confirm"}
        /\ runs[r].cancelledBy # "none"
        /\ Resumes(r))
       => UNCHANGED hookVars]_vars

\* C10: a plan response without its series target or sliceRange, or with a
\* range that is not numeric, makes plan parsing fail; start then ends with
\* status error and an error message, leaves currentPlan as it was (null),
\* issues no export or analysis call, and the plan step has status error.
Malformed(raw) ==
  \/ raw.targetSeries = "missing"
  \/ raw.sliceRange \in {"missing", "nonNumeric"}
\* start run r resumes with a malformed plan response
GotMalformed(r) ==
  /\ runs[r].kind = "start" /\ Resumes(r)
  /\ lastPlan'.response # None
  /\ Malformed(Get(lastPlan'.response))
C10_ParseFails ==
  \A r \in Runs :
    GotMalformed(r) => ~parseSelectionPlan(Get(lastPlan'.response)).ok
C10_StartEndsInError ==
  \A r \in Runs :
    (GotMalformed(r) /\ runs[r].cancelledBy = "none")
    => /\ status' = "error"
       /\ error' # None
       /\ currentPlan' = currentPlan
       /\ \A q \in Runs : ~IssuesCall(q)
C10_PlanStepError ==
  \A r \in Runs :
    (GotMalformed(r) /\ runs[r].cancelledBy = "none")
    => StepsAre(pipeline', "error", "pending", "pending", "pending")
C10_MalformedPlanResponse ==
  [][C10_ParseFails /\ C10_StartEndsInError /\ C10_PlanStepError]_vars

\* a confirmPlan run is invoked or resumes after an await
ConfirmActs(r) ==
  /\ runs'[r].kind = "confirm"
  /\ runs[r].pc = "unused" \/ Resumes(r)
StepStatus(pipe, id) == IF pipe = None THEN "none" ELSE Get(pipe).steps[id]

\* C11: when a confirm run ends its loop over the selections with no image at
\* all, the select step is marked error, status is error with the message that
\* no slices matched, the run has returned (so it issues no analysis call) and
\* no message is appended.
C11_EmptySelection ==
  [][\A r \in Runs :
       (ConfirmActs(r) /\ confirmEvent' = "empty")
       => /\ StepStatus(pipeline', "select") = "error"
          /\ status' = "error"
          /\ error' = Some("No slices matched the selection plan")
          /\ runs'[r].pc = "done"
          /\ ~IssuesCall(r)
          /\ messages' = messages]_vars
\* a run ended with no image, the plan naming only a series the study lacks
C11_Witness ==
  /\ confirmEvent = "empty"
  /\ status = "error"
  /\ currentPlan # None
  /\ \A i \in 1..Len(Get(currentPlan).selections) :
       FindSeries(Study, Get(currentPlan).selections[i].seriesNumber) = None
  /\ StepStatus(pipeline, "select") = "error"

\* the slice of the study that has the image handle `imageId`, with its series
SlicesWithId(imageId) ==
  {<<Study[i].seriesNumber, Study[i].slices[k]>> :
     i \in {i \in 1..Len(Study) : \E k \in 1..Len(Study[i].slices) :
              Study[i].slices[k].imageId = imageId},
     k \in {k \in 1..MaxInst : \E i \in 1..Len(Study) :
              k <= Len(Study[i].slices) /\ Study[i].slices[k].imageId = imageId}}
ExportedSlice(imageId) == CHOOSE p \in SlicesWithId(imageId) : TRUE

\* C12: a confirm run that has exported at least one slice goes on when the
\* export of other slices fails: it comes to the analysis call; and the images
\* and labels passed to analysis and the SliceMappings stored in the pipeline
\* are equally many, imageIndex is 1, 2, ..., N in order, and mapping k records
\* the series and instance number of the k-th exported slice.
C12_ExportFailureNotFatal ==
  \A r \in Runs :
    (/\ Resumes(r) /\ runs[r].kind = "confirm" /\ runs[r].pc = "awaitExport"
     /\ runs[r].cancelledBy = "none"
     /\ runs[r].blobs # <<>>
     /\ confirmEvent' # "threw")
    => runs'[r].pc \in {"awaitExport", "awaitAnalysis"}
C12_CountsConsistent ==
  \A r \in Runs :
    (ConfirmActs(r) /\ confirmEvent' = "analyze")
    => /\ runs'[r].pc = "awaitAnalysis"
       /\ Len(runs'[r].blobs) >= 1
       /\ Len(runs'[r].mappings) = Len(runs'[r].blobs)
       /\ pipeline' # None
       /\ Get(pipeline').sliceMappings = runs'[r].mappings
       /\ Get(pipeline').exportedSizes = Len(runs'[r].blobs)
       /\ \A k \in 1..Len(runs'[r].mappings) :
            /\ runs'[r].mappings[k].imageIndex = k
            /\ runs'[r].mappings[k].seriesNumber = ExportedSlice(runs'[r].blobs[k])[1]
            /\ runs'[r].mappings[k].instanceNumber =
                 ExportedSlice(runs'[r].blobs[k])[2].instanceNumber
C12_PartialExport == [][C12_ExportFailureNotFatal /\ C12_CountsConsistent]_vars

\* ------------------------------------------------------------------------
\* SliceAddressResolver: the references of an assistant message
\* ------------------------------------------------------------------------
\* the number of mappings, and the greatest instance number and reference end
MaxMap == 3
MaxRef == 4

Abs(x) == IF x < 0 THEN -x ELSE x

\* the part of a mapping's label the reference patterns can match:
\* `Slice ${e.instanceNumber}/${totalSlicesInSeries}`
Label(instanceNumber, total) == [slice |-> instanceNumber, of |-> total]

\* a label read as "Slice n-t": the total taken for the end of a range
parseSliceRef_TotalAsEnd(label) ==
  IF label.slice < 0 THEN None
  ELSE Some([from |-> label.slice, to |-> label.of,
             total |-> label.of, isLegacy |-> FALSE])
\* parseSliceRefs on a label: SLICE_REF_PATTERN takes digits only, so a negative
\* number after "Slice" gives no reference; otherwise from = to = the number
\* before the slash and total the number after it
parseSliceRef(label) ==
  IF label.slice < 0 THEN None
  ELSE Some([from |-> label.slice, to |-> label.slice,
             total |-> label.of, isLegacy |-> FALSE])

\* sliceMappings.find((m) => m.imageIndex === midImage)
\*   ?? sliceMappings.find((m) => m.imageIndex >= from && m.imageIndex <= to)
FirstAt(mappings, idx) ==
  IF idx = {} THEN None ELSE Some(mappings[CHOOSE i \in idx : \A k \in idx : i <= k])
OrElse(found, other) == IF found # None THEN found ELSE other
FindByImageIndex(mappings, from, to, midImage) ==
  OrElse(FirstAt(mappings, {i \in 1..Len(mappings) : mappings[i].imageIndex = midImage}),
         FirstAt(mappings, {i \in 1..Len(mappings) :
                              mappings[i].imageIndex >= from /\ mappings[i].imageIndex <= to}))

\* Math.abs(m.instanceNumber - mid) < Math.abs(best.instanceNumber - mid) ? m : best
Closer(best, m, mid) ==
  IF best = None THEN Some(m)
  ELSE IF Abs(m.instanceNumber - mid) < Abs(Get(best).instanceNumber - mid)
    THEN Some(m) ELSE best

\* the first reduce: mappings outside [from, to] are skipped
RECURSIVE ClosestInRange(_, _, _, _, _, _)
ClosestInRange(mappings, i, best, from, to, mid) ==
  IF i > Len(mappings) THEN best
  ELSE ClosestInRange(mappings, i + 1,
         IF mappings[i].instanceNumber < from \/ mappings[i].instanceNumber > to
           THEN best ELSE Closer(best, mappings[i], mid),
         from, to, mid)

\* the second reduce: the nearest of all mappings
RECURSIVE Nearest(_, _, _, _)
Nearest(mappings, i, best, mid) ==
  IF i > Len(mappings) THEN best
  ELSE Nearest(mappings, i + 1, Closer(best, mappings[i], mid), mid)

\* mutant: the nearest of all mappings, the range never looked at
FindByInstance_NearestOnly(mappings, from, to, midInstance) ==
  Nearest(mappings, 1, None, midInstance)
FindByInstance(mappings, from, to, midInstance) ==
  OrElse(ClosestInRange(mappings, 1, None, from, to, midInstance),
         Nearest(mappings, 1, None, midInstance))

\* handleSliceClick: the mapping handed to onNavigate, None when there is none
handleSliceClick(mappings, from, to, isLegacy) ==
  IF isLegacy
    THEN FindByImageIndex(mappings, from, to, RoundDiv(from + to, 2))
    ELSE FindByInstance(mappings, from, to, RoundDiv(from + to, 2))

\* ------------------------------------------------------------------------
\* SpecResolver: handleSliceClick on bounded mapping sets and references
\* ------------------------------------------------------------------------
RefVals == -1..MaxRef
\* mappings as confirmPlan builds them: imageIndex 1, 2, ... in order
MappingsOf(insts) ==
  [k \in 1..Len(insts) |->
     [imageIndex |-> k, instanceNumber |-> insts[k], imageId |-> 100 + k,
      seriesNumber |-> IF 2 * k <= Len(insts) + 1 THEN "1" ELSE "2"]]
MappingSets == UNION {{MappingsOf(insts) : insts \in [1..n -> RefVals]} : n \in 0..MaxMap}
References == [from : RefVals, to : RefVals, isLegacy : BOOLEAN]

InitResolver ==
  /\ vPhase = "input"
  /\ vMappings \in MappingSets
  /\ \E ref \in References : vRef = Some(ref)
  /\ vNav = None
  /\ MetadataOff /\ PlaneOff
  /\ RepairOff /\ SamplerOff
  /\ InitChat

Resolve ==
  /\ vPhase = "input"
  /\ vNav' = handleSliceClick(vMappings, Get(vRef).from, Get(vRef).to, Get(vRef).isLegacy)
  /\ vPhase' = "resolved"
  /\ UNCHANGED <<vMappings, vRef, metadataVars, planeVars, repairVars, samplerVars, chatVars>>

NextResolver == Resolve

SpecResolver == InitResolver /\ [][NextResolver]_vars

\* the reference clicked is the one the label of mapping m parses to
IsLabelRefOf(ref, parsed) ==
  /\ parsed # None
  /\ ref.from = Get(parsed).from
  /\ ref.to = Get(parsed).to
  /\ ref.isLegacy = Get(parsed).isLegacy

\* C13: for every mapping m of a mapping set, the reference its label parses to,
\* resolved against that set, gives a mapping with m's instance number.
C13_LabelRoundTrip ==
  vPhase = "resolved"
  => \A k \in 1..Len(vMappings), total \in 1..MaxRef :
       IsLabelRefOf(Get(vRef), parseSliceRef(Label(vMappings[k].instanceNumber, total)))
       => /\ vNav # None
          /\ Get(vNav).instanceNumber = vMappings[k].instanceNumber
\* the label of the second mapping, whose instance number the first mapping
\* does not have, resolved to the second mapping
C13_Witness ==
  /\ vPhase = "resolved"
  /\ Len(vMappings) = MaxMap
  /\ vMappings[1].instanceNumber # vMappings[2].instanceNumber
  /\ IsLabelRefOf(Get(vRef), parseSliceRef(Label(vMappings[2].instanceNumber, MaxRef)))
  /\ vNav = Some(vMappings[2])

\* the positions of the mappings whose instance number lies within [from, to]
WithinRef(mappings, ref) ==
  {k \in 1..Len(mappings) :
     mappings[k].instanceNumber >= ref.from /\ mappings[k].instanceNumber <= ref.to}
\* Math.round((from + to) / 2)
MidOf(ref) == RoundDiv(ref.from + ref.to, 2)
\* nav is a mapping at one of `positions`, none of which is nearer to mid
NearestAmong(nav, mappings, positions, mid) ==
  \E k \in positions :
    /\ nav = Some(mappings[k])
    /\ \A j \in positions :
         Abs(mappings[k].instanceNumber - mid) <= Abs(mappings[j].instanceNumber - mid)

\* C26: an instance-number reference [from, to] resolves, with mid =
\* round((from + to) / 2), to a mapping within the range that is nearest to mid
\* among the mappings within the range if there is one, else to a mapping
\* nearest to mid among all mappings; with no mappings nothing is navigated to.
C26_InstanceReference ==
  (vPhase = "resolved" /\ ~Get(vRef).isLegacy)
  => IF vMappings = <<>> THEN vNav = None
     ELSE IF WithinRef(vMappings, Get(vRef)) # {}
       THEN NearestAmong(vNav, vMappings, WithinRef(vMappings, Get(vRef)), MidOf(Get(vRef)))
     ELSE NearestAmong(vNav, vMappings, 1..Len(vMappings), MidOf(Get(vRef)))
\* the first mapping lies outside the range, as near to mid as the second,
\* which lies within it; the third, within the range and nearer, is chosen
C26_Witness ==
  /\ vPhase = "resolved" /\ ~Get(vRef).isLegacy
  /\ Len(vMappings) = MaxMap
  /\ WithinRef(vMappings, Get(vRef)) = {2, 3}
  /\ Abs(vMappings[1].instanceNumber - MidOf(Get(vRef)))
       = Abs(vMappings[2].instanceNumber - MidOf(Get(vRef)))
  /\ vNav = Some(vMappings[3])
  /\ vMappings[3].instanceNumber # vMappings[2].instanceNumber

\* ------------------------------------------------------------------------
\* Further claims about the PlanRepairer (SpecRepair)
\* ------------------------------------------------------------------------
\* the selections of the input plan after the per-selection repair
FixedOf(plan) ==
  [i \in 1..Len(plan.selections) |-> fixSelection(plan.selections[i], Study, MAX_TOTAL)]
WithRole(sels, role) == {i \in 1..Len(sels) : sels[i].role = role}
LastOf(idx) == CHOOSE i \in idx : \A k \in idx : k <= i
\* selection i made uniform with `count` slices, the others as they are
ReducedAt(sels, i, count) ==
  [sels EXCEPT ![i] = [@ EXCEPT !.samplingStrategy = "uniform",
                                !.samplingParam = Some(count)]]
\* one primary selection, a total over the budget, and a last supplementary
\* selection that can give up the excess and keep two slices
MinimalReductionCase(fixed) ==
  /\ Cardinality(WithRole(fixed, "primary")) = 1
  /\ WithRole(fixed, "supplementary") # {}
  /\ TotalEstimate(fixed) > MAX_TOTAL
  /\ estimateSliceCount(fixed[LastOf(WithRole(fixed, "supplementary"))])
       >= (TotalEstimate(fixed) - MAX_TOTAL) + 2
MinimallyReduced(fixed, last, out) ==
  /\ out.selections =
       ReducedAt(fixed, last,
                 estimateSliceCount(fixed[last]) - (TotalEstimate(fixed) - MAX_TOTAL))
  /\ out.totalImages = MAX_TOTAL

\* C14: in that case the global repair keeps every selection, changes only the
\* last supplementary selection, to uniform with its count reduced by exactly
\* the excess, and totalImages is exactly 20.
C14_MinimalReduction ==
  (rPhase # "input" /\ MinimalReductionCase(FixedOf(rPlan)))
  => MinimallyReduced(FixedOf(rPlan),
                      LastOf(WithRole(FixedOf(rPlan), "supplementary")), Get(rOut))
\* primary uniform 15 and supplementary uniform 10 became 15 + 5
C14_Witness ==
  /\ rPhase = "repaired"
  /\ Len(rPlan.selections) = 2
  /\ rPlan.selections[1].role = "primary"
  /\ rPlan.selections[1].samplingParam = Some(15)
  /\ rPlan.selections[2].role = "supplementary"
  /\ rPlan.selections[2].samplingParam = Some(10)
  /\ rPlan.selections[2].seriesNumber = "1"
  /\ MinimalReductionCase(FixedOf(rPlan))
  /\ Get(rOut).selections[1] = FixedOf(rPlan)[1]
  /\ Get(rOut).selections[2].samplingParam = Some(5)
  /\ Get(rOut).totalImages = MAX_TOTAL

\* ------------------------------------------------------------------------
\* Further claims about the PipelineOrchestrator (Spec)
\* ------------------------------------------------------------------------
\* C15: the images passed to the analysis call of a confirm run are at most 20
\* in total across all selections, whatever plan was confirmed.
C15_ImagesBounded ==
  \A r \in Runs :
    runs[r].pc = "awaitAnalysis" => Len(runs[r].blobs) <= MAX_SLICES

\* ------------------------------------------------------------------------
\* orientationUtils: detectPlaneFromOrientation
\* ------------------------------------------------------------------------
\* The argument is None (undefined) or Some(parts), parts being
\* iop.split('\\').map(Number): each part Some(n), or None where Number() gives
\* NaN. The empty string, which `!iop` takes, is Some(<<>>).
MaxCos == 1

\* nx, ny, nz of row x col, each through Math.abs
Cross(rowX, rowY, rowZ, colX, colY, colZ) ==
  [x |-> Abs(rowY * colZ - rowZ * colY),
   y |-> Abs(rowZ * colX - rowX * colZ),
   z |-> Abs(rowX * colY - rowY * colX)]

\* mutant: coronal is tried before sagittal
PlaneOfNormal_CoronalFirst(n) ==
  IF n.z >= n.x /\ n.z >= n.y THEN "axial"
  ELSE IF n.y >= n.x /\ n.y >= n.z THEN "coronal"
  ELSE "sagittal"

PlaneOfNormal(n) ==
  IF n.z >= n.x /\ n.z >= n.y THEN "axial"
  ELSE IF n.x >= n.y /\ n.x >= n.z THEN "sagittal"
  ELSE "coronal"

\* parts.length < 6 || parts.some(isNaN)
BadParts(parts) == Len(parts) < 6 \/ \E i \in 1..Len(parts) : parts[i] = None

detectPlaneFromOrientation(iop) ==
  IF iop = None \/ Get(iop) = <<>> THEN "axial"
  ELSE IF BadParts(Get(iop)) THEN "axial"
  ELSE PlaneOfNormal(Cross(Get(Get(iop)[1]), Get(Get(iop)[2]), Get(Get(iop)[3]),
                           Get(Get(iop)[4]), Get(Get(iop)[5]), Get(Get(iop)[6])))

\* ------------------------------------------------------------------------
\* SpecPlane: detectPlaneFromOrientation on bounded inputs
\* ------------------------------------------------------------------------
Cosines == {Some(n) : n \in -MaxCos..MaxCos}
\* too few parts, a part that is not a number, and more than six parts
ShortParts == UNION {[1..n -> {Some(0), Some(1)}] : n \in 1..5}
NaNParts == [1..6 -> {None, Some(1)}] \ {[i \in 1..6 |-> Some(1)]}
LongParts == {<<Some(0), Some(1), Some(0), Some(0), Some(0), Some(1), Some(1)>>,
              <<Some(0), Some(1), Some(0), Some(0), Some(0), Some(1), None>>}
Orientations ==
  {None, Some(<<>>)}
    \cup {Some(p) : p \in [1..6 -> Cosines] \cup ShortParts \cup NaNParts \cup LongParts}

InitPlane ==
  /\ oPhase = "input"
  /\ oInput \in Orientations
  /\ oPlane = None
  /\ ResolverOff /\ MetadataOff
  /\ RepairOff /\ SamplerOff
  /\ InitChat

Detect ==
  /\ oPhase = "input"
  /\ oPlane' = Some(detectPlaneFromOrientation(oInput))
  /\ oPhase' = "detected"
  /\ UNCHANGED <<oInput, resolverVars, metadataVars, repairVars, samplerVars, chatVars>>

NextPlane == Detect

SpecPlane == InitPlane /\ [][NextPlane]_vars

\* the input has exactly six parts, all numbers
SixCosines(iop) ==
  /\ iop # None
  /\ Len(Get(iop)) = 6
  /\ \A i \in 1..6 : Get(iop)[i] # None
\* the magnitudes of the components of the normal row x col of six cosines
NormalOf(iop) ==
  LET row == [i \in 1..3 |-> Get(Get(iop)[i])]
      col == [i \in 1..3 |-> Get(Get(iop)[3 + i])]
  IN [x |-> Abs(row[2] * col[3] - row[3] * col[2]),
      y |-> Abs(row[3] * col[1] - row[1] * col[3]),
      z |-> Abs(row[1] * col[2] - row[2] * col[1])]
Largest(n) == Max2(n.x, Max2(n.y, n.z))
TiedForLargest(n) == Cardinality({c \in {"x", "y", "z"} : n[c] = Largest(n)}) >= 2
MissingOrMalformed(iop) ==
  iop = None \/ Len(Get(iop)) < 6 \/ \E i \in 1..Len(Get(iop)) : Get(iop)[i] = None

StrictlyLargestDecides(n, plane) ==
  /\ (n.z > n.x /\ n.z > n.y) => plane = "axial"
  /\ (n.x > n.y /\ n.x > n.z) => plane = "sagittal"
  /\ (n.y > n.x /\ n.y > n.z) => plane = "coronal"

\* C17: for a six-component input the plane is axial, sagittal or coronal when
\* the Z, X or Y component of the normal is strictly the largest in magnitude;
\* it is axial for missing or malformed input and whenever two or more
\* components tie for the largest magnitude.
C17_PlaneClassification ==
  oPhase = "detected"
  => /\ MissingOrMalformed(oInput) => oPlane = Some("axial")
     /\ SixCosines(oInput)
        => /\ StrictlyLargestDecides(NormalOf(oInput), Get(oPlane))
           /\ TiedForLargest(NormalOf(oInput)) => oPlane = Some("axial")

\* C17 as amended: as above, but a tie for the largest magnitude gives axial
\* only when Z is among the tied components; when X and Y tie for the largest
\* and Z is strictly smaller the plane is sagittal.
C17_PlaneClassificationAmended ==
  oPhase = "detected"
  => /\ MissingOrMalformed(oInput) => oPlane = Some("axial")
     /\ SixCosines(oInput)
        => LET n == NormalOf(oInput)
           IN /\ StrictlyLargestDecides(n, Get(oPlane))
              /\ (TiedForLargest(n) /\ n.z = Largest(n)) => oPlane = Some("axial")
              /\ (n.x = n.y /\ n.z < n.x) => oPlane = Some("sagittal")
\* six cosines whose normal has X and Y tied above Z were classified sagittal
C17_Witness ==
  /\ oPhase = "detected"
  /\ SixCosines(oInput)
  /\ NormalOf(oInput).x = NormalOf(oInput).y
  /\ NormalOf(oInput).z < NormalOf(oInput).x
  /\ oPlane = Some("sagittal")

\* ------------------------------------------------------------------------
\* MetadataExtractor: buildStudyMetadata
\* ------------------------------------------------------------------------
\* Array.prototype.sort with a comparator a.key - b.key: stable, ascending
RECURSIVE InsertByKey(_, _)
InsertByKey(sorted, x) ==
  IF sorted = <<>> THEN <<x>>
  ELSE IF sorted[Len(sorted)].key <= x.key THEN Append(sorted, x)
  ELSE Append(InsertByKey(SubSeq(sorted, 1, Len(sorted) - 1), x), sorted[Len(sorted)])

RECURSIVE SortByKey(_)
SortByKey(items) ==
  IF items = <<>> THEN <<>>
  ELSE InsertByKey(SortByKey(SubSeq(items, 1, Len(items) - 1)), items[Len(items)])

\* list sorted by the keys given for its positions
SortedBy(list, keys) ==
  LET sorted == SortByKey([i \in 1..Len(list) |-> [key |-> keys[i], val |-> list[i]]])
  IN [i \in 1..Len(list) |-> sorted[i].val]

\* the keys of seriesMap, in insertion order
RECURSIVE SeriesUids(_)
SeriesUids(records) ==
  IF records = <<>> THEN <<>>
  ELSE LET before == SeriesUids(SubSeq(records, 1, Len(records) - 1))
           uid == records[Len(records)].seriesInstanceUID
       IN IF \E i \in 1..Len(before) : before[i] = uid THEN before
          ELSE Append(before, uid)

\* seriesMap.get(uid)
RecordsOf(records, uid) == SelectSeq(records, LAMBDA rec : rec.seriesInstanceUID = uid)

\* recs.sort(...): by instance number when every zPosition equals the first,
\* by zPosition otherwise
SortRecords(recs) ==
  IF \A i \in 1..Len(recs) : recs[i].zPosition = recs[1].zPosition
    THEN SortedBy(recs, [i \in 1..Len(recs) |-> recs[i].instanceNumber])
    ELSE SortedBy(recs, [i \in 1..Len(recs) |-> recs[i].zPosition])

SeqMin(nums) == CHOOSE n \in {nums[i] : i \in 1..Len(nums)} :
                  \A i \in 1..Len(nums) : n <= nums[i]
SeqMax(nums) == CHOOSE n \in {nums[i] : i \in 1..Len(nums)} :
                  \A i \in 1..Len(nums) : n >= nums[i]

\* rep.imageOrientationPatient.join('\\'), as detectPlaneFromOrientation
\* splits it again
JoinedIop(iop) == Some([i \in 1..Len(iop) |-> Some(iop[i])])

\* the SeriesMetadata pushed for one entry of seriesMap; rep is recs[0] before
\* the sort
BuildSeries(uid, rep, sorted) ==
  [seriesInstanceUID |-> uid,
   seriesNumber |-> rep.seriesNumber,
   anatomicalPlane |-> detectPlaneFromOrientation(JoinedIop(rep.imageOrientationPatient)),
   zMin |-> SeqMin([i \in 1..Len(sorted) |-> sorted[i].zPosition]),
   zMax |-> SeqMax([i \in 1..Len(sorted) |-> sorted[i].zPosition]),
   instanceNumberRange |->
     <<SeqMin([i \in 1..Len(sorted) |-> sorted[i].instanceNumber]),
       SeqMax([i \in 1..Len(sorted) |-> sorted[i].instanceNumber])>>,
   slices |-> [i \in 1..Len(sorted) |->
                 [instanceNumber |-> sorted[i].instanceNumber,
                  imageId |-> sorted[i].imageId]]]

BuiltSeries(records, uids) ==
  [k \in 1..Len(uids) |->
     BuildSeries(uids[k], RecordsOf(records, uids[k])[1],
                 SortRecords(RecordsOf(records, uids[k])))]

\* series.sort((a, b) => a.seriesNumber - b.seriesNumber)
SortSeries(series) ==
  SortedBy(series, [i \in 1..Len(series) |-> series[i].seriesNumber])

\* mutant: among series of equal size the higher series number wins
Better_HigherNumber(s, best) ==
  \/ Len(s.slices) > Len(best.slices)
  \/ Len(s.slices) = Len(best.slices) /\ s.seriesNumber > best.seriesNumber

\* the reducer's test for taking s instead of best
Better(s, best) ==
  \/ Len(s.slices) > Len(best.slices)
  \/ Len(s.slices) = Len(best.slices) /\ s.seriesNumber < best.seriesNumber

\* list.reduce(...) without an initial value, from position i with best so far
RECURSIVE ReduceBest(_, _, _)
ReduceBest(list, i, best) ==
  IF i > Len(list) THEN best
  ELSE ReduceBest(list, i + 1, IF Better(list[i], best) THEN list[i] ELSE best)

PickPrimary(series, axialSeries) ==
  IF Len(axialSeries) > 0 THEN ReduceBest(axialSeries, 2, axialSeries[1])
  ELSE ReduceBest(series, 2, series[1])

StudyOf(series) ==
  [primarySeriesUID |->
     PickPrimary(series, SelectSeq(series, LAMBDA s : s.anatomicalPlane = "axial"))
       .seriesInstanceUID,
   series |-> series]

EmptyStudy == [primarySeriesUID |-> "", series |-> <<>>]

buildStudyMetadata(records) ==
  IF Len(records) = 0 THEN EmptyStudy
  ELSE StudyOf(SortSeries(BuiltSeries(records, SeriesUids(records))))

\* ------------------------------------------------------------------------
\* SpecMetadata: buildStudyMetadata on bounded record lists
\* ------------------------------------------------------------------------
MaxRec == 3
Uids == {"1.2.1", "1.2.2", "1.2.3"}
\* the Series Number each file of a series carries: two series share number 1
SeriesNumberOf(uid) == IF uid = "1.2.1" THEN 2 ELSE 1
IopAxial == <<1, 0, 0, 0, 1, 0>>
IopCoronal == <<1, 0, 0, 0, 0, -1>>
\* (instance number, z): two at the same z, one elsewhere with a repeated number
Positions == {<<1, 0>>, <<2, 0>>, <<1, 5>>}
FileRecords ==
  {[seriesInstanceUID |-> uid, seriesNumber |-> SeriesNumberOf(uid),
    imageOrientationPatient |-> iop, instanceNumber |-> pos[1], zPosition |-> pos[2]]
     : uid \in Uids, iop \in {IopAxial, IopCoronal}, pos \in Positions}
\* imageId assigned in file order after registration
Registered(files) ==
  [i \in 1..Len(files) |->
     [seriesInstanceUID |-> files[i].seriesInstanceUID,
      seriesNumber |-> files[i].seriesNumber,
      imageOrientationPatient |-> files[i].imageOrientationPatient,
      instanceNumber |-> files[i].instanceNumber,
      zPosition |-> files[i].zPosition,
      imageId |-> 300 + i]]

InitMetadata ==
  /\ mPhase = "input"
  /\ \E n \in 0..MaxRec : \E files \in [1..n -> FileRecords] : mRecords = Registered(files)
  /\ mStudy = None
  /\ ResolverOff /\ PlaneOff
  /\ RepairOff /\ SamplerOff
  /\ InitChat

Build ==
  /\ mPhase = "input"
  /\ mStudy' = Some(buildStudyMetadata(mRecords))
  /\ mPhase' = "built"
  /\ UNCHANGED <<mRecords, resolverVars, planeVars, repairVars, samplerVars, chatVars>>

NextMetadata == Build

SpecMetadata == InitMetadata /\ [][NextMetadata]_vars

\* positions of the series of a study among which the primary is chosen: the
\* axial ones, or all when none is axial
Candidates(series) ==
  LET axial == {i \in 1..Len(series) : series[i].anatomicalPlane = "axial"}
  IN IF axial # {} THEN axial ELSE 1..Len(series)
\* series[i] has the most slices among the candidates and, among those with as
\* many, the lowest series number
LargestLowest(series, i) ==
  /\ i \in Candidates(series)
  /\ \A j \in Candidates(series) :
       /\ Len(series[j].slices) <= Len(series[i].slices)
       /\ Len(series[j].slices) = Len(series[i].slices)
          => series[i].seriesNumber <= series[j].seriesNumber
\* every series of the study holds one slice per input record of its UID
OneSlicePerRecord(records, series) ==
  /\ {series[i].seriesInstanceUID : i \in 1..Len(series)}
       = {records[k].seriesInstanceUID : k \in 1..Len(records)}
  /\ \A i \in 1..Len(series) :
       Len(series[i].slices)
         = Cardinality({k \in 1..Len(records) :
                          records[k].seriesInstanceUID = series[i].seriesInstanceUID})

\* C16: for a non-empty record list the primary series UID names a series of
\* the returned study, which is the largest axial one (the largest overall when
\* none is axial), the lowest series number winning ties; for no records the
\* study has no series and an empty primary UID.
C16_PrimarySeries ==
  mPhase = "built"
  => IF mRecords = <<>>
       THEN Get(mStudy).series = <<>> /\ Get(mStudy).primarySeriesUID = ""
       ELSE /\ OneSlicePerRecord(mRecords, Get(mStudy).series)
            /\ \E i \in 1..Len(Get(mStudy).series) :
                 /\ Get(mStudy).series[i].seriesInstanceUID = Get(mStudy).primarySeriesUID
                 /\ LargestLowest(Get(mStudy).series, i)
\* the file of series number 2 came first, two axial series and a coronal one
\* have one slice each, and the axial series of number 1 is primary
C16_Witness ==
  /\ mPhase = "built"
  /\ Len(mRecords) = 3
  /\ mRecords[1].seriesInstanceUID = "1.2.1"
  /\ mRecords[1].imageOrientationPatient = IopAxial
  /\ mRecords[2].seriesInstanceUID = "1.2.2"
  /\ mRecords[2].imageOrientationPatient = IopCoronal
  /\ mRecords[3].seriesInstanceUID = "1.2.3"
  /\ mRecords[3].imageOrientationPatient = IopAxial
  /\ Get(mStudy).primarySeriesUID = "1.2.3"

\* ------------------------------------------------------------------------
\* Further claims about fixSelection (SpecRepair)
\* ------------------------------------------------------------------------
\* `all` stays only over a range within the budget, else uniform(budget)
AllKeptWithinBudget(sel, fixed) ==
  sel.samplingStrategy = "all"
  => IF RangeSize(fixed) <= MAX_TOTAL
       THEN fixed.samplingStrategy = "all" /\ fixed.samplingParam = sel.samplingParam
       ELSE fixed.samplingStrategy = "uniform" /\ fixed.samplingParam = Some(MAX_TOTAL)
\* a uniform count lies between 1 and the smaller of budget and range size
UniformParamInRange(fixed) ==
  fixed.samplingStrategy = "uniform"
  => /\ fixed.samplingParam # None
     /\ 1 <= Get(fixed.samplingParam)
     /\ Get(fixed.samplingParam) <= Min2(MAX_TOTAL, RangeSize(fixed))

\* C18: for every selection whose series is in the study, fixSelection keeps
\* `all` only if the clamped range holds at most 20 instance numbers and makes
\* it uniform(20) otherwise, and leaves a uniform selection with a count
\* between 1 and min(20, clamped range size), whatever the count was.
C18_ParamRepair ==
  rPhase = "repaired"
  => \A i \in 1..Len(rPlan.selections) :
       FindSeries(Study, rPlan.selections[i].seriesNumber) # None
       => /\ AllKeptWithinBudget(rPlan.selections[i], FixedOf(rPlan)[i])
          /\ UniformParamInRange(FixedOf(rPlan)[i])


\* the selections of a plan whose series the study does not have
MissingSeries(plan) ==
  {i \in 1..Len(plan.selections) :
     FindSeries(Study, plan.selections[i].seriesNumber) = None}
\* sel is among the selections of the plan, every field as it is
PresentIn(sel, plan) == \E j \in 1..Len(plan.selections) : plan.selections[j] = sel

\* C19: every selection of a series the study does not have is among the
\* selections fixSelectionPlan returns, with every field as in the input, also
\* when the plan is over the 20-image budget.
C19_MissingSeriesPassThrough ==
  rPhase = "repaired"
  => \A i \in MissingSeries(rPlan) : PresentIn(rPlan.selections[i], Get(rOut))

\* C19 as amended: every selection of a series the study does not have comes
\* out of fixSelection as it went in, and is selection i of the plan
\* fixSelectionPlan returns, unchanged, when the estimated total of the plan
\* after the per-selection repair is within the 20-image budget.
C19_PassThroughWithinBudget ==
  rPhase = "repaired"
  => \A i \in MissingSeries(rPlan) :
       /\ FixedOf(rPlan)[i] = rPlan.selections[i]
       /\ TotalEstimate(FixedOf(rPlan)) <= MAX_TOTAL
          => /\ Len(Get(rOut).selections) = Len(rPlan.selections)
             /\ Get(rOut).selections[i] = rPlan.selections[i]
\* a selection of the missing series "9" with a range reaching below 1 and a
\* uniform count of 0, within the budget, came back as it was
C19_Witness ==
  /\ rPhase = "repaired"
  /\ MissingSeries(rPlan) = {1}
  /\ rPlan.selections[1].sliceRange = <<-3, 5>>
  /\ rPlan.selections[1].samplingStrategy = "uniform"
  /\ rPlan.selections[1].samplingParam = Some(0)
  /\ TotalEstimate(FixedOf(rPlan)) <= MAX_TOTAL
  /\ Get(rOut).selections = rPlan.selections


\* ------------------------------------------------------------------------
\* Further claims about the SliceSampler (SpecSampler)
\* ------------------------------------------------------------------------
\* the positions in the series of the slices whose instance number is in the
\* inclusive range, or every position when there is none
InRangeIdx(series, range) ==
  {i \in 1..Len(series.slices) :
     /\ range[1] <= series.slices[i].instanceNumber
     /\ series.slices[i].instanceNumber <= range[2]}
HandedIdx(series, range) ==
  IF InRangeIdx(series, range) = {} THEN 1..Len(series.slices)
  ELSE InRangeIdx(series, range)
\* list holds exactly the slices of the series at the positions idx, ordered
\* by instance number
HoldsInOrder(list, series, idx) ==
  /\ Len(list) = Cardinality(idx)
  /\ {list[k] : k \in 1..Len(list)} = {series.slices[i] : i \in idx}
  /\ \A k \in 1..(Len(list) - 1) : list[k].instanceNumber <= list[k + 1].instanceNumber
\* the slices handed to the strategy are those in the range, else all
HandedSlices == HoldsInOrder(sIn, sSeries, HandedIdx(sSeries, sSel.sliceRange))
\* the parameter makes the strategy pick nothing from any list
PicksNothing(sel) ==
  /\ sel.samplingParam # None
  /\ \/ sel.samplingStrategy = "uniform" /\ ParamOf(sel) < 1
     \/ sel.samplingStrategy = "every_nth" /\ ParamOf(sel) = 0

\* C20: for a selection whose series exists the strategy is handed exactly the
\* slices with an instance number in the inclusive range, ordered by instance
\* number, or the whole series when the range matches none, so that the result
\* is empty only when the series has no slices.
C20_RangeFallback ==
  Sampled
  => /\ HandedSlices
     /\ SampleOut = Returned(<<>>) => Len(sSeries.slices) = 0

\* C20 as amended: as above, except that what is empty only for a series
\* without slices is the list handed to the strategy; the result is empty also
\* when the strategy picks nothing (a uniform count below 1, an every_nth step
\* of 0), and otherwise only for a series without slices.
C20_RangeFallbackAmended ==
  Sampled
  => /\ HandedSlices
     /\ sIn = <<>> => Len(sSeries.slices) = 0
     /\ SampleOut = Returned(<<>>) => (Len(sSeries.slices) = 0 \/ PicksNothing(sSel))
\* a range matching no slice of a series stored in reverse instance order: the
\* whole series was sampled, in instance order
C20_Witness ==
  /\ Sampled
  /\ Len(sSeries.slices) = 3
  /\ sSeries.slices[1].instanceNumber = 3
  /\ InRangeIdx(sSeries, sSel.sliceRange) = {}
  /\ sSel.samplingStrategy = "all"
  /\ Len(sIn) = 3
  /\ sIn[1] = sSeries.slices[3]
  /\ SampleOut = Returned(sIn)


\* ------------------------------------------------------------------------
\* Claims about the pipeline steps and the hook's state (Spec)
\* ------------------------------------------------------------------------
\* the four steps in pipeline order
StepOrder == <<"plan", "select", "export", "analyze">>
ActiveSteps(pipe) == {k \in 1..4 : StepStatus(pipe, StepOrder[k]) = "active"}
\* this step is an invocation of startAnalysis: the pipeline is a new run's
StartsRun == nextRun' # nextRun /\ runs'[nextRun].kind = "start"
\* a step's status stays, or moves along pending -> active -> done or error;
\* the updates up to the next await are applied together, so that pending may
\* have reached done or error through active
StatusMove(from, to) ==
  \/ from = to
  \/ from = "pending" /\ to \in {"active", "done", "error"}
  \/ from = "active" /\ to \in {"done", "error"}

C21_AtMostOneActive == pipeline' # None => Cardinality(ActiveSteps(pipeline')) <= 1
C21_ActiveAfterDone ==
  pipeline' # None
  => \A k \in ActiveSteps(pipeline') :
       (pipeline = None \/ StartsRun \/ k \notin ActiveSteps(pipeline))
       => \A e \in 1..(k - 1) : StepStatus(pipeline', StepOrder[e]) = "done"
C21_StatusMoves ==
  (pipeline # None /\ pipeline' # None /\ ~StartsRun)
  => \A k \in 1..4 : StatusMove(StepStatus(pipeline, StepOrder[k]),
                                StepStatus(pipeline', StepOrder[k]))

\* C21: in every pipeline state at most one of the four steps is active, a step
\* becomes active only when every earlier step is done, and within a run a
\* step's status only moves pending -> active -> done or error.
C21_StepSequencing ==
  [][C21_AtMostOneActive /\ C21_ActiveAfterDone /\ C21_StatusMoves]_vars


\* this step is the failure of the external call run r was suspended in, and
\* r was not cancelled
CallFails(r) ==
  /\ InFlight(r)
  /\ runs[r].cancelledBy = "none"
  /\ runs'[r].pc = "done"
  /\ \/ runs[r].kind = "start" /\ lastPlan' = [response |-> None, result |-> None]
     \/ runs[r].kind = "confirm" /\ confirmEvent' = "rejected"
\* the message of the failure of the call r was suspended in
FailureMessage(r) ==
  IF runs[r].pc = "awaitExport" THEN "export error" ELSE "provider error"
\* nothing of a run is left in the pipeline
NoPartialResult(pipe) ==
  pipe # None
  => /\ ActiveSteps(pipe) = {}
     /\ Get(pipe).sliceMappings = <<>>
     /\ Get(pipe).exportedSizes = 0

\* C22: when the plan, export or analysis call of a run that was not cancelled
\* fails, status becomes error with the failure's message, the run issues no
\* further call, no message is appended, and the pipeline keeps no slice
\* mappings, no exported sizes and no active step.
C22_ProviderFailure ==
  [][\A r \in Runs :
       CallFails(r)
       => /\ status' = "error"
          /\ error' = Some(FailureMessage(r))
          /\ ~IssuesCall(r)
          /\ messages' = messages
          /\ NoPartialResult(pipeline')]_vars


\* C23: when clear() came while a follow-up was suspended in its call, the
\* arrival of the response or failure changes nothing: messages, status and
\* error stay as they are (empty, idle and null after the clear, until the next
\* start or followUp).
C23_ClearDuringFollowUp ==
  [][\A r \in Runs :
       (runs[r].kind = "followUp" /\ runs[r].cancelledBy = "clear" /\ Resumes(r))
       => /\ messages' = messages
          /\ status' = status
          /\ error' = error]_vars


\* the latest invocation of startAnalysis, and where its user turn stands
LatestStart == CHOOSE t \in Runs :
                 /\ runs[t].kind = "start"
                 /\ \A r \in Runs : runs[r].kind = "start" => r <= t
TurnOf(t) == {p \in 1..Len(messages) : messages[p] = ChatMessage("user", t)}
\* the history as it was before that start: what stands before its user turn
\* (the history only grows at its end while the turn is in it)
HistoryBeforeStart ==
  SubSeq(messages, 1, (CHOOSE p \in TurnOf(LatestStart) : TRUE) - 1)

\* C24: cancel() while planning or awaiting confirmation leaves status idle,
\* no plan, no pipeline, and the message history as it was right before the
\* start that is being cancelled.
C24_CancelRollsBack ==
  [][(cancelPlan /\ status \in {"planning", "awaiting-confirmation"})
     => /\ status' = "idle"
        /\ currentPlan' = None
        /\ pipeline' = None
        /\ messages' = HistoryBeforeStart]_vars


\* C25: if every external call eventually returns or fails, a status of
\* planning, exporting, analyzing or following-up is always followed by idle,
\* awaiting-confirmation or error, whatever cancel and clear do in between.
C25_NoStuckStatus ==
  (status \in {"planning", "exporting", "analyzing", "following-up"})
    ~> (status \in {"idle", "awaiting-confirmation", "error"})
\* a confirm run returned silently on the cancellation flag, no call is
\* outstanding and the status is idle
C25_Witness ==
  /\ confirmEvent = "aborted"
  /\ \A r \in Runs : ~InFlight(r)
  /\ nextRun > MaxRuns
  /\ status = "idle"

\* C27: every mapping a confirm run has built carries the image handle of the
\* slice exported at its position, also in a series whose slices share an
\* instance number.
C27_MappingPointsAtImage ==
  \A r \in Runs :
    /\ Len(runs[r].mappings) = Len(runs[r].blobs)
    /\ \A k \in 1..Len(runs[r].mappings) :
         /\ runs[r].mappings[k].imageIndex = k
         /\ runs[r].mappings[k].imageId = runs[r].blobs[k]

\* C28: in every state of the hook, error is non-null exactly when the status
\* is error.
C28_ErrorIffStatus == (error # None) <=> (status = "error")

\* cancel or clear drops the plan
DropsPlan == (cancelPlan \/ clearChat) /\ currentPlan' = None

\* C29: while the status is awaiting-confirmation there is a plan, and cancel
\* and clear drop the plan only while setting the status to idle.
C29_PlanWhileAwaiting ==
  /\ [](status = "awaiting-confirmation" => currentPlan # None)
  /\ [][DropsPlan => status' = "idle"]_vars
\* a start that was cancelled put its plan up for confirmation while the start
\* invoked after the cancel is still suspended in its provider call
C29_Witness ==
  /\ status = "awaiting-confirmation" /\ currentPlan # None
  /\ runs[1].kind = "start" /\ runs[1].pc = "done"
  /\ runs[2].kind = "start" /\ runs[2].pc = "awaitPlan"

\* the number of slices selectSlicesForSelection returns for `sel` is `count`
SamplesExactly(sel, count) ==
  LET res == selectSlicesForSelection(Study, sel)
  IN res.ok /\ Len(res.value) = count

\* C30: for every selection of a plan fixSelectionPlan returned, the estimated
\* count (estimateSliceCount) is the number of slices selectSlicesForSelection
\* returns for it, on every series, with gaps or repeats in its instance
\* numbers or without.
C30_EstimateMatchesSample ==
  lastPlan.result # None
  => \A i \in 1..Len(Get(lastPlan.result).selections) :
       SamplesExactly(Get(lastPlan.result).selections[i],
                      estimateSliceCount(Get(lastPlan.result).selections[i]))

=============================================================================
